---- MODULE Spec2Model ----
(***************************************************************************)
(* The read path of the blobstore access layer (access/stream_get.go):     *)
(* Handler.Get, its blob pipeline and write loop, readOneBlob with its     *)
(* launcher, shard tasks and drain, getOneShardFromHost, the data-shard-   *)
(* only fast path, genLocationBlobs and genSortedVuidByIDC.                *)
(***************************************************************************)
EXTENDS Integers, Sequences, FiniteSets, TLC

\* ------------------------------------------------------------------ bounds
\* The code mode tactic (N data, M parity) of the volumes that are read.
TacticN == 2
TacticM == 1
\* uint64 arithmetic is modelled modulo Uint64Mod.
Uint64Mod == 16
\* Largest location.Size and location.BlobSize that Init enumerates.
MaxSize == 4
MaxBlobSize == 4
\* Size of a blob of which a read of a few bytes takes the fast path.
FastBlobSize == 12

\* Shards are aligned to ec.MinShardSize (common/ec), here scaled down.
MinShardSize == 2

\* retry.ExponentialBackoff(3, 200): attempts of one shard fetch.
RetryAttempts == 3

\* DiskPunishIntervalS in units of time, and the last time the clock reaches.
PunishInterval == 2
MaxTime == 3

Min(a, b) == IF a < b THEN a ELSE b
Max(a, b) == IF a > b THEN a ELSE b
minU64(a, b) == IF a < b THEN a ELSE b
AddU64(a, b) == (a + b) % Uint64Mod
SubU64(a, b) == (a - b + Uint64Mod) % Uint64Mod
MulU64(a, b) == (a * b) % Uint64Mod

Range(s) == {s[i] : i \in DOMAIN s}

Units == 0 .. (TacticN + TacticM - 1)
DataUnits == 0 .. (TacticN - 1)
ParityUnits == TacticN .. (TacticN + TacticM - 1)

\* ------------------------------------------------------------ EC geometry
\* ec.GetBufferSizes(blobSize, tactic): the shard size is the blob size spread
\* over the N data shards, rounded up, and at least MinShardSize.
ShardSizeOf(blobSize) == Max((blobSize + TacticN - 1) \div TacticN, MinShardSize)

GetBufferSizes(blobSize) ==
    [ShardSize |-> ShardSizeOf(blobSize),
     DataSize |-> blobSize,
     ECDataSize |-> ShardSizeOf(blobSize) * TacticN]

\* emptyDataShardIndexes(sizes)
emptyDataShardIndexesNone(sizes) == {}

emptyDataShardIndexes(sizes) ==
    LET firstEmptyIdx == (sizes.DataSize + sizes.ShardSize - 1) \div sizes.ShardSize
        n == sizes.ECDataSize \div sizes.ShardSize
    IN  IF firstEmptyIdx >= n THEN {} ELSE firstEmptyIdx .. (n - 1)

\* --------------------------------------------------------- genLocationBlobs
\* The same without currBlobID++.
RECURSIVE FlatBlobsSameBid(_)
FlatBlobsSameBid(runs) ==
    IF runs = <<>> THEN <<>>
    ELSE [i \in 1 .. Head(runs).Count |->
             [Vid |-> Head(runs).Vid, Bid |-> Head(runs).MinBid]]
         \o FlatBlobsSameBid(Tail(runs))

RECURSIVE FlatBlobs(_)
\* The (Vid, Bid) pairs of location.Blobs in iteration order.
FlatBlobs(runs) ==
    IF runs = <<>> THEN <<>>
    ELSE [i \in 1 .. Head(runs).Count |->
             [Vid |-> Head(runs).Vid, Bid |-> Head(runs).MinBid + i - 1]]
         \o FlatBlobs(Tail(runs))

RECURSIVE genLoop(_, _, _, _, _, _, _)
genLoop(loc, flat, firstBlobIdx, idx, remainSize, blobOffset, blobs) ==
    LET blobSize == loc.BlobSize IN
    IF idx >= Len(flat)
    THEN IF remainSize > 0 THEN [err |-> TRUE, blobs |-> <<>>]
         ELSE [err |-> FALSE, blobs |-> blobs]
    ELSE IF remainSize <= 0 THEN [err |-> FALSE, blobs |-> blobs]
    ELSE IF idx >= firstBlobIdx
    THEN LET toReadSize == minU64(remainSize, SubU64(blobSize, blobOffset))
             arg == [Vid |-> flat[idx + 1].Vid,
                     Bid |-> flat[idx + 1].Bid,
                     BlobSize |-> minU64(SubU64(loc.Size, MulU64(idx, blobSize)), blobSize),
                     Offset |-> blobOffset,
                     ReadSize |-> toReadSize]
         IN  genLoop(loc, flat, firstBlobIdx, idx + 1, SubU64(remainSize, toReadSize), 0,
                     IF toReadSize > 0 THEN Append(blobs, arg) ELSE blobs)
    ELSE genLoop(loc, flat, firstBlobIdx, idx + 1, remainSize, blobOffset, blobs)

genLocationBlobs(loc, rSize, off) ==
    IF AddU64(off, rSize) > loc.Size THEN [err |-> TRUE, blobs |-> <<>>]
    ELSE IF loc.BlobSize <= 0 THEN [err |-> TRUE, blobs |-> <<>>]
    ELSE genLoop(loc, FlatBlobs(loc.Blobs), off \div loc.BlobSize, 0, rSize,
                 off % loc.BlobSize, <<>>)

\* ------------------------------------------------------- genSortedVuidByIDC
distanceFlat(sameIDC, isPunished) == IF sameIDC THEN 0 ELSE 1

distance(sameIDC, isPunished) ==
    IF isPunished
    THEN IF sameIDC THEN 2 ELSE 3
    ELSE IF sameIDC THEN 0 ELSE 1

\* rand.Shuffle: every permutation of the sequence.
Shuffles(s) ==
    {[i \in 1 .. Len(s) |-> s[p[i]]] :
        p \in {q \in [1 .. Len(s) -> 1 .. Len(s)] :
                  \A i, j \in 1 .. Len(s) : i # j => q[i] # q[j]}}

RECURSIVE AscendingSeq(_)
AscendingSeq(S) ==
    IF S = {} THEN <<>>
    ELSE LET m == CHOOSE x \in S : \A y \in S : x <= y
         IN  <<m>> \o AscendingSeq(S \ {m})

\* sortMap[dis]: the units at distance dis whose disk host resolves, in the order
\* of vuidPhys.  units: index -> diskID; info: diskID -> [idc, resolvable];
\* pun: the disks now punished.
sortMapOf(units, info, pun, dis) ==
    LET idxs == {i \in DOMAIN units :
                    /\ info[units[i]].resolvable
                    /\ distance(info[units[i]].idc = "local", units[i] \in pun) = dis}
    IN  [k \in 1 .. Cardinality(idxs) |->
            [index |-> AscendingSeq(idxs)[k], diskID |-> units[AscendingSeq(idxs)[k]]]]

\* The read orders genSortedVuidByIDC can return.
genSortedVuidByIDC(units, info, pun) ==
    {g0 \o g1 \o g2 \o g3 :
        g0 \in Shuffles(sortMapOf(units, info, pun, 0)),
        g1 \in Shuffles(sortMapOf(units, info, pun, 1)),
        g2 \in Shuffles(sortMapOf(units, info, pun, 2)),
        g3 \in Shuffles(sortMapOf(units, info, pun, 3))}

\* ==================================================================== state
Disks == 0 .. (2 * (TacticN + TacticM) - 1)
\* Disk i holds unit i in the cached volume; AltDisk(i) is where the cluster
\* manager may have moved it.
AltDisk(i) == TacticN + TacticM + i
MaxBlobs == 4
BlobIdx == 1 .. MaxBlobs
Vids == {1, 2}
Answers == {"ok", "short", "overload", "broken", "notfound", "timeout", "other"}

VARIABLES
    \* ---- inputs of one Get, fixed by Init
    location,       \* access.Location: [Size, BlobSize, Blobs]
    readSize, offset,
    minReadShardsX, \* StreamConfig.MinReadShardsX
    diskInfo,       \* disk -> [idc, resolvable]: what GetDiskHost knows
    answer,         \* disk -> the answer class of its blobnode to RangeGetShard
    upstreamUnits,  \* unit index -> disk: the volume as the cluster manager has it
    volumeErr,      \* "none" | "forced" | "all": which volume lookups fail
    writeFailAt,    \* the Write call of the caller's writer that fails (0: none)
    encoderErr,     \* ReconstructData reports an error
    lost,           \* the bids no blobnode has: RangeGetShard fails for them
    allocFail,      \* the buffers for which memPool.Alloc returns an error
    now,            \* the clock of the process, in units of time
    \* ---- shared state of the handler
    punished,       \* disk -> [kind: "none" | "full" | "threshold", until: time]
    volumeCache,    \* vid -> "cached" | "fresh"
    buf,            \* memPool: buffer id -> "pool" | "out" | "back" | "twice"
    \* ---- Get
    blobs,          \* []blobGetArgs
    getPC, result, fast, wr, written, writeCalls,
    \* ---- pipeline goroutine
    pipe, ch, chClosed, closeCh,
    \* ---- readOneBlob of each blob
    sortedVuids, stopChan, nextChan, launcher, received, mainLoop, shardPipeClosed,
    task, shards,
    \* ---- observation
    gets,           \* blob -> unit index -> RangeGetShard calls of the general path
    fastGets,       \* RangeGetShard calls of the fast path, in order
    forcedLookups,  \* blob -> unit index -> getVolume(..., false) calls of its shard task
    reconstructs,   \* ReconstructData calls: [blob, badIdx, okData, nilBufs, recv]
    brokenAt,       \* disk -> the time of its last DiskBroken answer (-1: none)
    allocErrs,      \* the memPool.Alloc calls of the Get that returned an error
    \* ---- genSortedVuidByIDC called on its own
    sortOut,
    \* ---- worker: one TaskRunner, its worker and its scheduler client
    genErr,         \* the error of w.GenTasklets ("none": it succeeds)
    tasklets,       \* the number of tasklets that GenTasklets returns
    execErr,        \* tasklet -> the error of w.ExecTasklet
    checkErr,       \* the error of w.Check
    concurrency,    \* taskletRunConcurrency
    state,          \* TaskRunner.state.state
    stopReason,     \* TaskRunner.stopReason ("none": nil)
    ctxDone,        \* r.ctx is cancelled
    stopMu,         \* the holder of TaskRunner.stopMu ("free": nobody)
    runPC,          \* where Run is
    tasklet,        \* tasklet -> where its execTaskletWrap is
    stopPC,         \* where the caller of Stop is
    reasonSynced,   \* the write of stopReason happens before the read of Run
    reports,        \* the CompleteTask, CancelTask and ReclaimTask calls so far
    executed,       \* the tasklets for which ExecTasklet was called
    stopCalls,      \* the arguments of the stopWithFail calls, in the order of stopMu
    reasonAtWait,   \* stopReason was set when wg.Wait returned
    \* ---- TaskState.setStatus called on its own
    statusCalls,    \* the arguments of the calls so far
    \* ---- util/limit/keycount: one blockingKeyCountLimit and its callers
    keyMap,         \* key -> its blocker in l.keyMap (0: no entry)
    lock,           \* the goroutine that holds l.lock for writing (0: nobody)
    ready,          \* blocker -> the tokens in its ready channel
    ref,            \* blocker -> its ref counter
    blockers,       \* the blockers made by newBlocker so far
    caller,         \* goroutine -> [pc, keys, kls, idx]: where its call is
    \* ---- allocator: one bidMgr, its allocBidLoop and the cluster manager
    current,        \* b.current: NoScope (nil) or [minBid, maxBid]
    backup,         \* b.backup
    bidLoop,        \* allocBidLoop: [pc, scope]
    scopeBase,      \* the first bid the cluster manager has not handed out
    obtained,       \* the bids of the scopes this bidMgr got from the cluster manager
    allocs          \* the Alloc calls so far: [count, ranges, err]

limitVars == <<keyMap, lock, ready, ref, blockers, caller>>
bidVars == <<current, backup, bidLoop, scopeBase, obtained, allocs>>
\* What no step of a task runner changes: the answers of its worker, and the
\* limiter.
workerVars == <<genErr, tasklets, execErr, checkErr, concurrency, limitVars, bidVars>>
runnerVars == <<state, stopReason, ctxDone, stopMu, runPC, tasklet, stopPC, reasonSynced,
                reports, executed, stopCalls, reasonAtWait>>
taskVars == <<workerVars, runnerVars, statusCalls>>
\* What no step of a Get changes: its inputs, the clock, and the task runner.
inputVars == <<location, readSize, offset, minReadShardsX, diskInfo, answer, upstreamUnits,
               volumeErr, writeFailAt, encoderErr, lost, allocFail, now, taskVars>>
sharedVars == <<punished, volumeCache, buf>>
getVars == <<blobs, getPC, result, fast, wr, written, writeCalls>>
pipeVars == <<pipe, ch, chClosed, closeCh>>
blobVars == <<sortedVuids, stopChan, nextChan, launcher, received, mainLoop, shardPipeClosed,
              task, shards>>
obsVars == <<gets, fastGets, forcedLookups, reconstructs, brokenAt, allocErrs>>
vars == <<inputVars, sharedVars, getVars, pipeVars, blobVars, obsVars, sortOut>>

\* ------------------------------------------------------- keycount: bounds
\* The n of NewBlockingKeyCountLimit(n).
LimitN == 1
MaxCallers == 3
Callers == 1 .. MaxCallers
MaxKeys == 2
LimitKeys == 1 .. MaxKeys
\* newBlocker is called at most once for each key of each call.
MaxBlockers == MaxKeys * MaxCallers
BlockerIds == 1 .. MaxBlockers
IdleCaller == [pc |-> "idle", keys |-> <<>>, kls |-> <<>>, idx |-> 0]

\* NewBlockingKeyCountLimit(n): an empty keyMap; nobody calls.
NewBlockingKeyCountLimit ==
    /\ keyMap = [k \in LimitKeys |-> 0]
    /\ lock = 0
    /\ ready = [id \in BlockerIds |-> 0]
    /\ ref = [id \in BlockerIds |-> 0]
    /\ blockers = 0
    /\ caller = [g \in Callers |-> IdleCaller]

\* ---------------------------------------------------------- bidMgr: bounds
\* BlobConfig.BidAllocNums: the bids of one scope (confCheck keeps it at
\* DefaultBidAllocNums or more; scaled down here).
BidAllocNums == 3
\* Alloc is called at most MaxAllocs times.
MaxAllocs == 4
NoScope == [minBid |-> 0, maxBid |-> 0, nil |-> TRUE]
Scope(lo, hi) == [minBid |-> lo, maxBid |-> hi, nil |-> FALSE]
ScopeBids(sc) == IF sc.nil THEN {} ELSE sc.minBid .. sc.maxBid

\* The state after NewBidMgr returned without error: the first allocBid got the
\* scope that starts at base, allocBidLoop waits on allocCh.
NewBidMgrAt(base) ==
    /\ current = Scope(base, base + BidAllocNums - 1)
    /\ backup = NoScope
    /\ bidLoop = [pc |-> "wait", scope |-> NoScope]
    /\ scopeBase = base + BidAllocNums
    /\ obtained = base .. (base + BidAllocNums - 1)
    /\ allocs = <<>>

NoBidMgr == NewBidMgrAt(1)

\* ---------------------------------------------------------------- buffers
PreBuf(b, i) == <<"pre", b, i>>
ReadBuf(b, i) == <<"rd", b, i>>
RangeBuf == <<"range", 0, 0>>
\* The nil slice an Alloc that failed leaves in its place.
NilBuf == <<"nil", 0, 0>>
BufIds == {PreBuf(b, i) : b \in BlobIdx, i \in Units}
              \cup {ReadBuf(b, i) : b \in BlobIdx, i \in Units} \cup {RangeBuf}

\* memPool.Alloc / memPool.Put on a pool state p
Alloc(p, id) == [p EXCEPT ![id] = "out"]
Put(p, id) ==
    IF id = NilBuf THEN p
    ELSE [p EXCEPT ![id] = IF p[id] = "out" THEN "back" ELSE "twice"]

RECURSIVE PutAll(_, _)
PutAll(p, ids) ==
    IF ids = {} THEN p
    ELSE LET id == CHOOSE x \in ids : TRUE IN PutAll(Put(p, id), ids \ {id})

\* --------------------------------------------------------- volume, disks
\* Disks stay punished for PunishInterval units of time.
IsPunished(d) == punished[d].kind # "none" /\ now < punished[d].until

\* The units of volume vid as the cache has them.
UnitsOf(cached) == [i \in Units |-> IF cached = "fresh" THEN upstreamUnits[i] ELSE i]

\* h.getVolume(ctx, clusterID, vid, isCache)
getVolumeFails(isCache) == volumeErr = "all" \/ (volumeErr = "forced" /\ ~isCache)

punishWith(p, d, kind) ==
    [p EXCEPT ![d] = [kind |-> IF p[d].kind = "full" /\ now < p[d].until THEN "full"
                               ELSE kind,
                      until |-> now + PunishInterval]]

PunishedDisks == {d \in Disks : IsPunished(d)}

\* ------------------------------------------------------ getOneShardFromHost
\* One run of the function that getOneShardFromHost retries, past its cancel
\* check: the RangeGetShard call to disk for unit index of volume vid, and the
\* handling of its answer.  out: "ok" | "short" (the body ends early) | "fail"
\* (interrupt the retry) | "retry".
\* errorTimeout(err): the error of the call is a timeout.
errorTimeoutAlways(a) == TRUE

errorTimeout(a) == a = "timeout"

attemptOnce(disk, index, bid) ==
    LET a == IF bid \in lost THEN "other" ELSE answer[disk]
        same == [out |-> "fail", disk |-> disk, pun |-> punished, lookup |-> FALSE,
                 refreshed |-> FALSE, broken |-> a = "broken"]
    IN  CASE a \in {"ok", "short"} -> [same EXCEPT !.out = a]
          [] a = "overload" -> same
          [] a = "broken" -> [same EXCEPT !.pun = punishWith(punished, disk, "full")]
          [] a # "notfound" /\ errorTimeout(a) ->
               [same EXCEPT !.pun = punishWith(punished, disk, "threshold")]
          [] a = "other" -> [same EXCEPT !.out = "retry"]
          [] a = "notfound" ->
               IF getVolumeFails(FALSE)
               THEN [same EXCEPT !.out = "retry", !.lookup = TRUE]
               ELSE LET newDiskID == upstreamUnits[index] IN
                    IF /\ newDiskID # disk
                       /\ diskInfo[newDiskID].resolvable
                       /\ ~IsPunished(newDiskID)
                    THEN [same EXCEPT !.out = "retry", !.disk = newDiskID,
                                      !.lookup = TRUE, !.refreshed = TRUE]
                    ELSE [same EXCEPT !.out = "retry", !.lookup = TRUE,
                                      !.refreshed = TRUE,
                                      !.pun = punishWith(punished, disk, "threshold")]

\* retry.ExponentialBackoff(3, 200).RuptOn: after a failed run that did not
\* interrupt, run again unless the attempts are used up.
RuptOnGivesUpLate(attempts) == attempts > RetryAttempts

RuptOnGivesUp(attempts) == attempts >= RetryAttempts

\* ------------------------------------------------------------- readOneBlob
SizesOf(b) == GetBufferSizes(blobs[b].BlobSize)
EmptiesOf(b) == emptyDataShardIndexes(SizesOf(b))

minShardsReadOneLess(sorted) == Min(TacticN + minReadShardsX - 1, Len(sorted))

minShardsReadOneMore(sorted) == Min(TacticN + minReadShardsX + 1, Len(sorted))

minShardsRead(sorted) == Min(TacticN + minReadShardsX, Len(sorted))

\* The position of the first entry of sorted at or after pos that is not an
\* empty index (Len(sorted) + 1 when there is none).
\* The same without the skip of the empty indices.
nextLaunchPosAny(sorted, empties, pos) == pos

RECURSIVE nextLaunchPos(_, _, _)
nextLaunchPos(sorted, empties, pos) ==
    IF pos > Len(sorted) THEN pos
    ELSE IF sorted[pos].index \in empties THEN nextLaunchPos(sorted, empties, pos + 1)
    ELSE pos

NoTask == [st |-> "idle", disk |-> 0, attempts |-> 0, status |-> FALSE]

\* encoder.ReconstructData(shards, badIdx): fails when fewer than N shards are
\* present; otherwise fills the data shards of badIdx from the present ones.
ReconstructFails(badIdx) == encoderErr \/ Cardinality(Units \ badIdx) < TacticN

ReconstructData(sh, badIdx) ==
    LET sound == \A j \in Units \ badIdx : sh[j].data # "junk"
    IN  [j \in Units |->
            IF j \in badIdx /\ j \in DataUnits
            THEN [sh[j] EXCEPT !.data = IF sound THEN "shard" ELSE "junk"]
            ELSE sh[j]]

\* swap shard buffer: the received buffer takes the place of shards[i].
swapShardNever(sh, b, i, status) == sh

swapShard(sh, b, i, status) ==
    IF status THEN [sh EXCEPT ![i] = [buf |-> ReadBuf(b, i), data |-> "shard"]] ELSE sh

\* it will not wait all the shards, cos has no enough shards to reconstruct
tooManyBadNever(badShards) == FALSE

tooManyBadEager(badShards) == badShards >= TacticM

tooManyBad(badShards) == badShards > (TacticN + TacticM) - TacticN

\* if len(received) >= len(sortedVuids): no shard is left to wait for.
allRecordedAlways(lenReceived, sorted) == TRUE

allRecorded(lenReceived, sorted) == lenReceived >= Len(sorted)

\* One iteration of the main loop of readOneBlob on the outcome (i, status) of
\* blob b.  next: "continue" (back to the receive), "ok" or "broken" (break).
Process(b, i, status) ==
    LET dataN == TacticN
        rcv == [received[b] EXCEPT ![i] = IF status THEN "ok" ELSE "bad"]
        \* swap shard buffer
        sh == swapShard(shards[b], b, i, status)
        pool == IF status THEN Put(buf, shards[b][i].buf) ELSE buf
        lenReceived == Cardinality({j \in Units : rcv[j] # "none"})
        badData == {j \in DataUnits : rcv[j] # "ok"}
        badIdx == badData \cup {j \in ParityUnits : rcv[j] # "ok"}
        badShards == Cardinality({j \in Units : rcv[j] = "bad"})
        base == [rcv |-> rcv, sh |-> sh, pool |-> pool, next |-> "continue",
                 token |-> FALSE, rec |-> <<>>]
        call == <<[blob |-> b, badIdx |-> badIdx,
                   okData |-> {j \in Units : sh[j].data # "junk"},
                   nilBufs |-> {j \in Units : sh[j].buf = NilBuf},
                   recv |-> rcv]>>
    IN  IF lenReceived < dataN THEN base
        ELSE IF badData = {} THEN [base EXCEPT !.next = "ok"]
        ELSE IF tooManyBad(badShards) THEN [base EXCEPT !.next = "broken"]
        ELSE IF lenReceived >= dataN + badShards /\ ~ReconstructFails(badIdx)
             THEN [base EXCEPT !.next = "ok", !.rec = call,
                               !.sh = ReconstructData(sh, badIdx)]
        ELSE IF allRecorded(lenReceived, sortedVuids[b])
             THEN [base EXCEPT !.next = "broken",
                               !.rec = IF lenReceived >= dataN + badShards
                                       THEN call ELSE <<>>]
        ELSE [base EXCEPT !.token = TRUE,
                          !.rec = IF lenReceived >= dataN + badShards THEN call ELSE <<>>]

\* ------------------------------------------------------------ Get: entry
NoResult == [kind |-> "none", blob |-> 0]
Res(kind, b) == [kind |-> kind, blob |-> b]
NoFast == [idx |-> 0, shardOffset |-> 0, remain |-> 0, disk |-> 0, attempts |-> 0,
           units |-> <<>>, data |-> <<>>]
NoWr == [k |-> 0, idx |-> 0, off |-> 0, toReadSize |-> 0]
NoPipe == [pc |-> "off", k |-> 0, vid |-> 0, sorted |-> <<>>, err |-> "none"]

\* The source byte at position pos of shard idx of blob b, as shards[b] holds it.
Label(b, idx, pos) ==
    IF shards[b][idx].data = "shard"
    THEN <<blobs[b].Vid, blobs[b].Bid, idx * SizesOf(b).ShardSize + pos>>
    ELSE <<shards[b][idx].data>>

\* Handler.Get up to the returned closure.
GetCall ==
    /\ getPC = "call"
    /\ LET r == genLocationBlobs(location, readSize, offset) IN
         IF r.err
         THEN /\ result' = Res("illegal", 0) /\ getPC' = "done" /\ blobs' = <<>>
         ELSE IF Len(r.blobs) = 0
         THEN /\ result' = Res("ok", 0) /\ getPC' = "done" /\ blobs' = <<>>
         ELSE /\ result' = result /\ getPC' = "entry" /\ blobs' = r.blobs
    /\ UNCHANGED <<inputVars, sharedVars, fast, wr, written, writeCalls, pipeVars, blobVars,
                   obsVars, sortOut>>

\* The same without the test of len(blobs).
readDataShardOnlyAny(bs) ==
    \/ bs[1].BlobSize <= GetBufferSizes(bs[1].BlobSize).ShardSize
    \/ bs[1].ReadSize < bs[1].BlobSize \div 4

\* The condition of Get to try the data shards only.
readDataShardOnly(bs) ==
    /\ Len(bs) = 1
    /\ \/ bs[1].BlobSize <= GetBufferSizes(bs[1].BlobSize).ShardSize
       \/ bs[1].ReadSize < bs[1].BlobSize \div 4

\* The closure starts the blob pipeline (the general path).
StartPipeline == [NoPipe EXCEPT !.pc = "next", !.k = 1]

\* The closure of Get starts: the fast path up to its first shard, or the
\* pipeline.
GetEntry ==
    /\ getPC = "entry"
    /\ IF readDataShardOnly(blobs)
       THEN IF getVolumeFails(TRUE)
            THEN /\ result' = Res("volume", 1) /\ getPC' = "done"
                 /\ UNCHANGED <<fast, buf, pipe, allocErrs>>
            ELSE IF RangeBuf \in allocFail
            THEN /\ result' = Res("alloc", 1) /\ getPC' = "done"
                 /\ allocErrs' = allocErrs + 1
                 /\ UNCHANGED <<fast, buf, pipe>>
            ELSE LET shardSize == SizesOf(1).ShardSize
                     us == UnitsOf(volumeCache[blobs[1].Vid])
                     first == blobs[1].Offset \div shardSize
                 IN  /\ fast' = [idx |-> first,
                                 shardOffset |-> blobs[1].Offset % shardSize,
                                 remain |-> blobs[1].ReadSize,
                                 disk |-> IF first < TacticN THEN us[first] ELSE 0,
                                 attempts |-> 0, units |-> us, data |-> <<>>]
                     /\ buf' = Alloc(buf, RangeBuf)
                     /\ getPC' = "fast"
                     /\ UNCHANGED <<result, pipe, allocErrs>>
       ELSE /\ pipe' = StartPipeline /\ getPC' = "recv"
            /\ UNCHANGED <<result, fast, buf, allocErrs>>
    /\ UNCHANGED <<inputVars, punished, volumeCache, blobs, wr, written, writeCalls,
                   ch, chClosed, closeCh, blobVars, gets, fastGets, forcedLookups,
                   reconstructs, brokenAt, sortOut>>

\* ------------------------------------------------------- getDataShardOnly
\* The Get ends at errNeedReconstructRead instead.
NeedReconstructEnds ==
    /\ buf' = Put(buf, RangeBuf)
    /\ pipe' = pipe
    /\ getPC' = "done"
    /\ fast' = fast

\* errNeedReconstructRead: release the range buffer and go to the general path.
NeedReconstruct ==
    /\ buf' = Put(buf, RangeBuf)
    /\ pipe' = StartPipeline
    /\ getPC' = "recv"
    /\ fast' = NoFast

\* The bytes asked of one data shard: to the end of the shard.
fastToReadSizeWhole(remainSize, shardSize, shardOffset) == shardSize - shardOffset

\* toReadSize := minU64(remainSize, uint64(shardSize-shardOffset))
fastToReadSize(remainSize, shardSize, shardOffset) ==
    minU64(remainSize, shardSize - shardOffset)

\* buf := buffer.DataBuf[bufOffset : bufOffset+toReadSize]; io.ReadFull(body, buf):
\* what the writer w of the caller has got once a shard body was read.
readIntoWriter(w, chunk) == w \o chunk

readIntoRangeBuffer(w, chunk) == w

\* One RangeGetShard attempt of the fast path (cancelChan is nil).
FastAttempt ==
    /\ getPC = "fast"
    /\ fast.remain > 0 /\ fast.idx < TacticN
    /\ LET shardSize == SizesOf(1).ShardSize
           toReadSize == fastToReadSize(fast.remain, shardSize, fast.shardOffset)
           e == attemptOnce(fast.disk, fast.idx, blobs[1].Bid)
           vid == blobs[1].Vid
       IN  /\ fastGets' = Append(fastGets, [index |-> fast.idx, disk |-> fast.disk,
                                            Offset |-> fast.shardOffset,
                                            Size |-> toReadSize, lookup |-> e.lookup])
           /\ punished' = e.pun
           /\ written' = IF e.out = "ok"
                         THEN readIntoRangeBuffer(written,
                                  [q \in 1 .. toReadSize |->
                                      <<vid, blobs[1].Bid,
                                        fast.idx * shardSize + fast.shardOffset + q - 1>>])
                         ELSE written
           /\ brokenAt' = IF e.broken THEN [brokenAt EXCEPT ![fast.disk] = now]
                          ELSE brokenAt
           /\ volumeCache' = IF e.refreshed THEN [volumeCache EXCEPT ![vid] = "fresh"]
                             ELSE volumeCache
           /\ CASE e.out = "ok" ->
                     /\ fast' = [fast EXCEPT
                            !.idx = @ + 1, !.shardOffset = 0,
                            !.remain = @ - toReadSize, !.attempts = 0,
                            !.disk = IF fast.idx + 1 < TacticN
                                     THEN fast.units[fast.idx + 1] ELSE 0,
                            !.data = @ \o [q \in 1 .. toReadSize |->
                                             <<vid, blobs[1].Bid,
                                               fast.idx * shardSize
                                                 + fast.shardOffset + q - 1>>]]
                     /\ UNCHANGED <<buf, pipe, getPC>>
                [] e.out \in {"short", "fail"} -> NeedReconstruct
                [] e.out = "retry" ->
                     IF RuptOnGivesUp(fast.attempts + 1)
                     THEN NeedReconstruct
                     ELSE /\ fast' = [fast EXCEPT !.attempts = @ + 1, !.disk = e.disk]
                          /\ UNCHANGED <<buf, pipe, getPC>>
    /\ UNCHANGED <<inputVars, blobs, result, wr, writeCalls, ch, chClosed, closeCh,
                   blobVars, gets, forcedLookups, reconstructs, allocErrs, sortOut>>

\* The fast path has read its shards: the one Write, and the buffer release.
FastWrite ==
    /\ getPC = "fast"
    /\ ~(fast.remain > 0 /\ fast.idx < TacticN)
    /\ buf' = Put(buf, RangeBuf)
    /\ getPC' = "done"
    /\ IF fast.remain > 0
       THEN /\ result' = Res("nodata", 1)
            /\ UNCHANGED <<written, writeCalls>>
       ELSE /\ writeCalls' = writeCalls + 1
            /\ IF writeCalls + 1 = writeFailAt
               THEN /\ result' = Res("write", 1) /\ written' = written
               ELSE /\ result' = Res("ok", 0) /\ written' = written \o fast.data
    /\ UNCHANGED <<inputVars, punished, volumeCache, blobs, fast, wr, pipeVars, blobVars,
                   obsVars, sortOut>>

\* ------------------------------------------------------ pipeline goroutine
\* ch := make(chan pipeBuffer, 1)
pipeBufferCapTwo == 1 + 1

pipeBufferCap == 1

\* The sorted read orders the pipeline may use for blob k of volume vid.
pipelineOrders(vid) ==
    genSortedVuidByIDC(UnitsOf(volumeCache[vid]), diskInfo, PunishedDisks)

\* Whether the pipeline resolves the volume and sorts again for a blob of vid.
needVolumeAlways(vid) == TRUE

needVolume(vid) == pipe.vid = 0 \/ pipe.vid # vid

\* if len(sortedVuids) < tactic.N: the blob is broken.
tooFewUnitsNever(sorted) == FALSE

tooFewUnits(sorted) == Len(sorted) < TacticN

\* The pipeline takes its next blob: volume and read order, the N+M buffers,
\* and readOneBlob up to its first receive.
PipelineStartBlob ==
    /\ pipe.pc = "next"
    /\ pipe.k <= Len(blobs)
    /\ LET k == pipe.k
           vid == blobs[k].Vid
           empties == EmptiesOf(k)
       IN  IF needVolume(vid) /\ getVolumeFails(TRUE)
           THEN /\ pipe' = [pipe EXCEPT !.pc = "senderr", !.err = "volume"]
                /\ UNCHANGED <<buf, blobVars, allocErrs>>
           ELSE \E sorted \in (IF needVolume(vid) THEN pipelineOrders(vid)
                                                     ELSE {pipe.sorted}) :
                  IF needVolume(vid) /\ tooFewUnits(sorted)
                  THEN /\ pipe' = [pipe EXCEPT !.pc = "senderr", !.err = "broken",
                                               !.vid = vid, !.sorted = sorted]
                       /\ UNCHANGED <<buf, blobVars, allocErrs>>
                  ELSE /\ pipe' = [pipe EXCEPT !.pc = "read", !.vid = vid,
                                               !.sorted = sorted]
                       \* buf, _ := h.memPool.Alloc(shardSize): a failed Alloc
                       \* leaves a nil buffer in shards[ii].
                       /\ buf' = [id \in BufIds |->
                                    IF \E i \in Units : id = PreBuf(k, i)
                                                           /\ id \notin allocFail
                                    THEN "out" ELSE buf[id]]
                       /\ allocErrs' = allocErrs
                            + Cardinality({i \in Units : PreBuf(k, i) \in allocFail})
                       /\ shards' = [shards EXCEPT ![k] =
                              [i \in Units |->
                                 [buf |-> IF PreBuf(k, i) \in allocFail THEN NilBuf
                                          ELSE PreBuf(k, i),
                                  data |-> IF i \in empties THEN "zero" ELSE "junk"]]]
                       /\ received' = [received EXCEPT ![k] =
                              [i \in Units |-> IF i \in empties THEN "ok" ELSE "none"]]
                       /\ sortedVuids' = [sortedVuids EXCEPT ![k] = sorted]
                       /\ launcher' = [launcher EXCEPT ![k] = [pc |-> "first", pos |-> 1]]
                       /\ mainLoop' = [mainLoop EXCEPT ![k] = "loop"]
                       /\ UNCHANGED <<stopChan, nextChan, shardPipeClosed, task>>
    /\ UNCHANGED <<inputVars, punished, volumeCache, getVars, ch, chClosed, closeCh,
                   gets, fastGets, forcedLookups, reconstructs, brokenAt, sortOut>>

\* The loop over the blobs ends: the deferred close(ch).
PipelineEnd ==
    /\ pipe.pc = "next"
    /\ pipe.k > Len(blobs)
    /\ pipe' = [pipe EXCEPT !.pc = "end"]
    /\ chClosed' = TRUE
    /\ UNCHANGED <<inputVars, sharedVars, getVars, ch, closeCh, blobVars, obsVars, sortOut>>

\* select: ch <- pipeBuffer{blob, shards}
PipelineSend ==
    /\ pipe.pc = "send"
    /\ Len(ch) < pipeBufferCap
    /\ ch' = Append(ch, [err |-> "none", k |-> pipe.k])
    /\ pipe' = [pipe EXCEPT !.pc = "next", !.k = @ + 1]
    /\ UNCHANGED <<inputVars, sharedVars, getVars, chClosed, closeCh, blobVars, obsVars,
                   sortOut>>

\* select: <-closeCh, return (and the deferred close(ch)).
PipelineClosed ==
    /\ pipe.pc = "send"
    /\ closeCh
    /\ pipe' = [pipe EXCEPT !.pc = "end"]
    /\ chClosed' = TRUE
    /\ UNCHANGED <<inputVars, sharedVars, getVars, ch, closeCh, blobVars, obsVars, sortOut>>

\* ch <- pipeBuffer{err: err}; return
PipelineSendErr ==
    /\ pipe.pc = "senderr"
    /\ Len(ch) < pipeBufferCap
    /\ ch' = Append(ch, [err |-> pipe.err, k |-> pipe.k])
    /\ pipe' = [pipe EXCEPT !.pc = "end"]
    /\ chClosed' = TRUE
    /\ UNCHANGED <<inputVars, sharedVars, getVars, closeCh, blobVars, obsVars, sortOut>>

\* --------------------------------------------------- shardPipe: the launcher
StartTask(d) == [st |-> "run", disk |-> d, attempts |-> 0, status |-> FALSE]

\* The launcher after it has launched up to position pos - 1 of the order.
LauncherAt(b, pos) ==
    LET p == nextLaunchPos(sortedVuids[b], EmptiesOf(b), pos)
    IN  IF p > Len(sortedVuids[b]) THEN [pc |-> "done", pos |-> p]
        ELSE [pc |-> "wait", pos |-> p]

\* The first loop of the launcher, one iteration that launches a read: the
\* next entry of sortedVuids[:minShardsRead] that is not an empty index gets its
\* goroutine (a loop without such an entry ends in one step).
LaunchInitial(b) ==
    /\ launcher[b].pc = "first"
    /\ LET sorted == sortedVuids[b]
           n == minShardsRead(sorted)
           p == nextLaunchPos(sorted, EmptiesOf(b), launcher[b].pos)
       IN  IF p > n
           THEN /\ task' = task
                /\ launcher' = [launcher EXCEPT ![b] = LauncherAt(b, n + 1)]
           ELSE /\ task' = [task EXCEPT ![b][sorted[p].index] = StartTask(sorted[p].diskID)]
                /\ launcher' = [launcher EXCEPT ![b] =
                       IF nextLaunchPos(sorted, EmptiesOf(b), p + 1) > n
                       THEN LauncherAt(b, n + 1)
                       ELSE [pc |-> "first", pos |-> p + 1]]
    /\ UNCHANGED <<inputVars, sharedVars, getVars, pipeVars, sortedVuids, stopChan, nextChan,
                   received, mainLoop, shardPipeClosed, shards, obsVars, sortOut>>

\* select: <-nextChan, then the next read of the order is launched.
LaunchNext(b) ==
    /\ launcher[b].pc = "wait"
    /\ nextChan[b] > 0
    /\ LET v == sortedVuids[b][launcher[b].pos] IN
         /\ task' = [task EXCEPT ![b][v.index] = StartTask(v.diskID)]
         /\ launcher' = [launcher EXCEPT ![b] = LauncherAt(b, launcher[b].pos + 1)]
    /\ nextChan' = [nextChan EXCEPT ![b] = @ - 1]
    /\ UNCHANGED <<inputVars, sharedVars, getVars, pipeVars, sortedVuids, stopChan,
                   received, mainLoop, shardPipeClosed, shards, obsVars, sortOut>>

\* select: <-stopChan, return.
LaunchStop(b) ==
    /\ launcher[b].pc = "wait"
    /\ stopChan[b]
    /\ launcher' = [launcher EXCEPT ![b].pc = "done"]
    /\ UNCHANGED <<inputVars, sharedVars, getVars, pipeVars, sortedVuids, stopChan, nextChan,
                   received, mainLoop, shardPipeClosed, task, shards, obsVars, sortOut>>

\* The deferred wg.Wait(); close(ch) of the launcher.
CloseShardPipe(b) ==
    /\ launcher[b].pc = "done"
    /\ ~shardPipeClosed[b]
    /\ \A i \in Units : task[b][i].st \in {"idle", "done"}
    /\ shardPipeClosed' = [shardPipeClosed EXCEPT ![b] = TRUE]
    /\ UNCHANGED <<inputVars, sharedVars, getVars, pipeVars, sortedVuids, stopChan, nextChan,
                   launcher, received, mainLoop, task, shards, obsVars, sortOut>>

\* -------------------------------------------------------------- readOneShard
\* The cancel check of one attempt: a closed stopChan ends the fetch.
canceledNever(b) == FALSE

canceled(b) == stopChan[b]

\* One attempt of the shard task of unit i of blob b: the cancel check, the
\* RangeGetShard call and what follows it up to the send of the outcome.
ShardAttempt(b, i) ==
    /\ task[b][i].st = "run"
    /\ IF canceled(b)
       THEN /\ task' = [task EXCEPT ![b][i].st = "ready", ![b][i].status = FALSE]
            /\ UNCHANGED <<punished, volumeCache, buf, gets, forcedLookups, brokenAt,
                           allocErrs>>
       ELSE LET e == attemptOnce(task[b][i].disk, i, blobs[b].Bid)
                noBuf == e.out \in {"ok", "short"} /\ ReadBuf(b, i) \in allocFail
            IN
            /\ gets' = [gets EXCEPT ![b][i] = @ + 1]
            /\ punished' = e.pun
            /\ brokenAt' = IF e.broken THEN [brokenAt EXCEPT ![task[b][i].disk] = now]
                           ELSE brokenAt
            /\ allocErrs' = IF noBuf THEN allocErrs + 1 ELSE allocErrs
            /\ volumeCache' = IF e.refreshed
                              THEN [volumeCache EXCEPT ![blobs[b].Vid] = "fresh"]
                              ELSE volumeCache
            /\ forcedLookups' = IF e.lookup THEN [forcedLookups EXCEPT ![b][i] = @ + 1]
                                ELSE forcedLookups
            /\ CASE noBuf ->
                      \* buf, err := h.memPool.Alloc(shardSize); return shardResult
                      /\ buf' = buf
                      /\ task' = [task EXCEPT ![b][i].st = "ready", ![b][i].status = FALSE]
                 [] e.out = "ok" /\ ~noBuf ->
                      /\ buf' = Alloc(buf, ReadBuf(b, i))
                      /\ task' = [task EXCEPT ![b][i].st = "ready", ![b][i].status = TRUE]
                 [] e.out = "short" /\ ~noBuf ->
                      /\ buf' = Put(Alloc(buf, ReadBuf(b, i)), ReadBuf(b, i))
                      /\ task' = [task EXCEPT ![b][i].st = "ready", ![b][i].status = FALSE]
                 [] e.out = "fail" ->
                      /\ buf' = buf
                      /\ task' = [task EXCEPT ![b][i].st = "ready", ![b][i].status = FALSE]
                 [] e.out = "retry" ->
                      /\ buf' = buf
                      /\ task' = IF RuptOnGivesUp(task[b][i].attempts + 1)
                                 THEN [task EXCEPT ![b][i].st = "ready",
                                                   ![b][i].status = FALSE,
                                                   ![b][i].attempts = @ + 1]
                                 ELSE [task EXCEPT ![b][i].attempts = @ + 1,
                                                   ![b][i].disk = e.disk]
    /\ UNCHANGED <<inputVars, getVars, pipeVars, sortedVuids, stopChan, nextChan, launcher,
                   received, mainLoop, shardPipeClosed, shards, fastGets, reconstructs,
                   sortOut>>

\* -------------------------------------------------- readOneBlob: main loop
\* readOneBlob returns nil if it has reconstructed, else the broken-blob error.
readOneBlobOkAlways(next) == TRUE

readOneBlobOk(next) == next = "ok"

\* readOneBlob returns to the pipeline: on an error the pipeline puts the N+M
\* buffers back and goes to send the error, else it goes to send the blob.
PipelineAfterRead(ok, sh, pool) ==
    IF ok
    THEN /\ pipe' = [pipe EXCEPT !.pc = "send"]
         /\ buf' = pool
    ELSE /\ pipe' = [pipe EXCEPT !.pc = "senderr", !.err = "broken"]
         /\ buf' = PutAll(pool, {sh[j].buf : j \in Units})

\* The main loop receives the outcome of unit i and runs one iteration.
MainRecv(b, i) ==
    /\ mainLoop[b] = "loop"
    /\ task[b][i].st = "ready"
    /\ LET r == Process(b, i, task[b][i].status) IN
         /\ task' = [task EXCEPT ![b][i].st = "done"]
         /\ received' = [received EXCEPT ![b] = r.rcv]
         /\ shards' = [shards EXCEPT ![b] = r.sh]
         /\ reconstructs' = reconstructs \o r.rec
         /\ mainLoop' = [mainLoop EXCEPT ![b] = IF r.next = "continue" THEN "loop"
                                                 ELSE r.next]
         /\ stopChan' = [stopChan EXCEPT ![b] = @ \/ r.next # "continue"]
         /\ nextChan' = [nextChan EXCEPT ![b] = IF r.token THEN @ + 1 ELSE @]
         /\ IF r.next = "continue"
            THEN /\ buf' = r.pool /\ pipe' = pipe
            ELSE PipelineAfterRead(readOneBlobOk(r.next), r.sh, r.pool)
    /\ UNCHANGED <<inputVars, punished, volumeCache, getVars, ch, chClosed, closeCh,
                   sortedVuids, launcher, shardPipeClosed, gets, fastGets, forcedLookups,
                   brokenAt, allocErrs, sortOut>>

\* The outcome channel is closed while the main loop waits: the loop ends.
MainClosed(b) ==
    /\ mainLoop[b] = "loop"
    /\ shardPipeClosed[b]
    /\ mainLoop' = [mainLoop EXCEPT ![b] = "broken"]
    /\ PipelineAfterRead(FALSE, shards[b], buf)
    /\ UNCHANGED <<inputVars, punished, volumeCache, getVars, ch, chClosed, closeCh,
                   sortedVuids, stopChan, nextChan, launcher, received, shardPipeClosed,
                   task, shards, obsVars, sortOut>>

\* The same without the Put of the buffer.
DrainRecvKeeps(b, i) ==
    /\ mainLoop[b] \in {"ok", "broken"}
    /\ task[b][i].st = "ready"
    /\ task' = [task EXCEPT ![b][i].st = "done"]
    /\ UNCHANGED <<inputVars, sharedVars, getVars, pipeVars, sortedVuids,
                   stopChan, nextChan, launcher, received, mainLoop, shardPipeClosed,
                   shards, obsVars, sortOut>>

\* release buffer of delayed shards: the drain goroutine receives an outcome.
DrainRecv(b, i) ==
    /\ mainLoop[b] \in {"ok", "broken"}
    /\ task[b][i].st = "ready"
    /\ task' = [task EXCEPT ![b][i].st = "done"]
    /\ buf' = IF task[b][i].status THEN Put(buf, ReadBuf(b, i)) ELSE buf
    /\ UNCHANGED <<inputVars, punished, volumeCache, getVars, pipeVars, sortedVuids,
                   stopChan, nextChan, launcher, received, mainLoop, shardPipeClosed,
                   shards, obsVars, sortOut>>

\* ----------------------------------------------------- Get: the write loop
\* for line := range pipeline
WriterRecv ==
    /\ getPC = "recv"
    /\ IF Len(ch) > 0
       THEN LET line == Head(ch) IN
            /\ ch' = Tail(ch)
            /\ IF line.err # "none"
               THEN /\ result' = Res(line.err, line.k) /\ getPC' = "done" /\ wr' = wr
               ELSE /\ wr' = [k |-> line.k, idx |-> 0, off |-> blobs[line.k].Offset,
                              toReadSize |-> blobs[line.k].ReadSize]
                    /\ getPC' = "write" /\ result' = result
       ELSE /\ chClosed
            /\ result' = Res("ok", 0) /\ getPC' = "done"
            /\ UNCHANGED <<ch, wr>>
    /\ UNCHANGED <<inputVars, sharedVars, blobs, fast, written, writeCalls, pipe, chClosed,
                   closeCh, blobVars, obsVars, sortOut>>

\* The iterations of the write loop that pass whole shards over.
RECURSIVE SkipShards(_, _, _)
SkipShards(idx, off, l) ==
    IF off >= l THEN SkipShards(idx + 1, off - l, l) ELSE [idx |-> idx, off |-> off]

\* What the write loop does once the bytes of a line are written or a Write
\* failed: the buffers of the line go back, and an error closes closeCh.
afterLine(k, failed) == PutAll(buf, {shards[k][j].buf : j \in Units})

\* One Write call of the write loop, with what follows it up to the next
\* Write or receive.
WriteChunk ==
    /\ getPC = "write"
    /\ LET k == wr.k
           l == SizesOf(k).ShardSize
           at == SkipShards(wr.idx, wr.off, l)
           toRead == minU64(wr.toReadSize, l - at.off)
           failed == writeCalls + 1 = writeFailAt
       IN  /\ writeCalls' = writeCalls + 1
           /\ IF failed
              THEN /\ buf' = afterLine(k, TRUE)
                   /\ closeCh' = TRUE
                   /\ result' = Res("write", k)
                   /\ getPC' = "done"
                   /\ UNCHANGED <<written, wr>>
              ELSE /\ written' = written \o [q \in 1 .. toRead |->
                                                Label(k, at.idx, at.off + q - 1)]
                   /\ closeCh' = closeCh
                   /\ result' = result
                   /\ IF wr.toReadSize - toRead > 0
                      THEN /\ wr' = [wr EXCEPT !.idx = at.idx + 1, !.off = 0,
                                               !.toReadSize = @ - toRead]
                           /\ UNCHANGED <<buf, getPC>>
                      ELSE /\ buf' = afterLine(k, FALSE)
                           /\ getPC' = "recv"
                           /\ wr' = NoWr
    /\ UNCHANGED <<inputVars, punished, volumeCache, blobs, fast, pipe, ch, chClosed,
                   blobVars, obsVars, sortOut>>

\* =================================================================== Init
\* --------------------------------------------------------------- TaskState
\* task runner status
TaskInit == 1
TaskRunning == 2
TaskStopping == 3
TaskSuccess == 4
TaskStopped == 5
TaskStates == TaskInit .. TaskStopped

stoppedState(st) == st = TaskSuccess \/ st = TaskStopped

\* stopped() and alive() of a TaskState whose state is st
stopped(st) == stoppedState(st)

alive(st) == st = TaskInit \/ st = TaskRunning

\* The state after setStatus(s) on a TaskState whose state is st.
setStatusAlways(st, s) == s

setStatus(st, s) ==
    IF s = st THEN st
    ELSE IF s = TaskRunning /\ stoppedState(st) THEN st
    ELSE s

\* -------------------------------------------------------------- TaskRunner
\* Most tasklets of a task, and most workers of its pool.
MaxTasklets == 3
MaxConcurrency == 2
\* Most setStatus calls on a TaskState called on its own.
MaxCalls == 3

Tasklets == 1 .. tasklets

\* The errors of the worker: a destination error, a destination error with
\* status Overload or StatusInterrupt, another error.
DstErr == "dst"
DstInterrupt == "dstInterrupt"
OtherErr == "other"
WorkErrors == {DstErr, DstInterrupt, OtherErr}

\* A *WorkError and where it comes from: Stop, GenTasklets, Check, or the
\* ExecTasklet of tasklet i.
Fail(e, from, i) == [err |-> e, from |-> <<from, i>>]
NoFail == Fail("none", "", 0)
\* OtherError(errKilled)
Killed == Fail(OtherErr, "Stop", 0)

ShouldReclaim(f) == f.err = DstErr

\* NewTaskRunner: the runner of a task whose worker behaves as given.
NewTaskRunner(gen, n, exec, check, conc) ==
    /\ genErr = gen /\ tasklets = n /\ execErr = exec /\ checkErr = check
    /\ concurrency = conc
    /\ state = setStatus(0, TaskInit)
    /\ stopReason = NoFail /\ ctxDone = FALSE /\ stopMu = "free"
    /\ runPC = "new" /\ stopPC = "idle"
    /\ tasklet = [i \in 1 .. n |-> "none"]
    /\ reasonSynced = FALSE
    /\ reports = <<>> /\ executed = {} /\ stopCalls = <<>> /\ reasonAtWait = FALSE
    /\ statusCalls = <<>>

\* A runner of a task without tasklets, for the specifications of the access
\* path.
NoTaskRunner ==
    NewTaskRunner("none", 0, <<>>, "none", 1) /\ NewBlockingKeyCountLimit /\ NoBidMgr

\* ================================================================ Init (Get)
\* A disk punished before the Get was punished at time 0.
PunishedAt0(pun) ==
    [d \in Disks |-> [kind |-> pun[d],
                      until |-> IF pun[d] = "none" THEN 0 ELSE PunishInterval]]

\* The state in which Get is called with the given inputs and the given state
\* of the volume cache.
GetStartWith(loc, rs, off, x, info, ans, up, verr, wfail, eerr, pun, gone, af, cache) ==
    /\ location = loc /\ readSize = rs /\ offset = off
    /\ minReadShardsX = x
    /\ diskInfo = info /\ answer = ans /\ upstreamUnits = up
    /\ volumeErr = verr /\ writeFailAt = wfail /\ encoderErr = eerr
    /\ punished = PunishedAt0(pun) /\ lost = gone
    /\ allocFail = af /\ now = 0
    /\ volumeCache = cache
    /\ buf = [id \in BufIds |-> "pool"]
    /\ blobs = <<>> /\ getPC = "call" /\ result = NoResult
    /\ fast = NoFast /\ wr = NoWr /\ written = <<>> /\ writeCalls = 0
    /\ pipe = NoPipe /\ ch = <<>> /\ chClosed = FALSE /\ closeCh = FALSE
    /\ sortedVuids = [b \in BlobIdx |-> <<>>]
    /\ stopChan = [b \in BlobIdx |-> FALSE]
    /\ nextChan = [b \in BlobIdx |-> 0]
    /\ launcher = [b \in BlobIdx |-> [pc |-> "off", pos |-> 0]]
    /\ received = [b \in BlobIdx |-> [i \in Units |-> "none"]]
    /\ mainLoop = [b \in BlobIdx |-> "off"]
    /\ shardPipeClosed = [b \in BlobIdx |-> FALSE]
    /\ task = [b \in BlobIdx |-> [i \in Units |-> NoTask]]
    /\ shards = [b \in BlobIdx |-> [i \in Units |-> [buf |-> PreBuf(b, i), data |-> "junk"]]]
    /\ gets = [b \in BlobIdx |-> [i \in Units |-> 0]]
    /\ fastGets = <<>>
    /\ forcedLookups = [b \in BlobIdx |-> [i \in Units |-> 0]]
    /\ reconstructs = <<>>
    /\ brokenAt = [d \in Disks |-> -1]
    /\ allocErrs = 0
    /\ sortOut = <<>>

\* The same with a volume cache that no forced lookup has refreshed.
GetStartAt(loc, rs, off, x, info, ans, up, verr, wfail, eerr, pun, gone, af) ==
    GetStartWith(loc, rs, off, x, info, ans, up, verr, wfail, eerr, pun, gone, af,
                 [v \in Vids |-> "cached"])

\* The same in a process whose task runner has nothing to run.
StartAt(loc, rs, off, x, info, ans, up, verr, wfail, eerr, pun, gone, af) ==
    /\ GetStartAt(loc, rs, off, x, info, ans, up, verr, wfail, eerr, pun, gone, af)
    /\ NoTaskRunner

\* The same with a buffer pool that serves every Alloc.
Start(loc, rs, off, x, info, ans, up, verr, wfail, eerr, pun, gone) ==
    StartAt(loc, rs, off, x, info, ans, up, verr, wfail, eerr, pun, gone, {})

\* ---- input sets
OneRun(vid, count) == <<[Vid |-> vid, MinBid |-> 1, Count |-> count]>>
Loc(size, blobSize, runs) == [Size |-> size, BlobSize |-> blobSize, Blobs |-> runs]

NoPunish == [d \in Disks |-> "none"]
AllLocal == [d \in Disks |-> [idc |-> "local", resolvable |-> TRUE]]
\* data units in the local IDC, parity units in another one
DataLocal == [d \in Disks |->
                 [idc |-> IF d % (TacticN + TacticM) < TacticN THEN "local" ELSE "other",
                  resolvable |-> TRUE]]
NotMoved == [i \in Units |-> i]
AllOk == [d \in Disks |-> "ok"]

\* Every unit answers ok or broken, or its disk host does not resolve.
ReachSets == [Units -> {"ok", "broken", "nohost"}]
AnswerOf(reach) == [d \in Disks |-> IF d \in Units /\ reach[d] = "broken"
                                     THEN "broken" ELSE "ok"]
InfoOf(info, reach) == [d \in Disks |->
                           IF d \in Units /\ reach[d] = "nohost"
                           THEN [info[d] EXCEPT !.resolvable = FALSE] ELSE info[d]]

\* Unit 0 answers a, the volume may have moved it to a disk that answers alt and
\* is in state altState; the other units answer ok.
AnswerUnit0(a, alt) == [d \in Disks |-> IF d = 0 THEN a ELSE IF d = AltDisk(0) THEN alt
                                          ELSE "ok"]
MovedUnit0(moved) == [i \in Units |-> IF i = 0 /\ moved THEN AltDisk(0) ELSE i]
InfoAlt0(info, altState) ==
    [d \in Disks |-> IF d = AltDisk(0) /\ altState = "nohost"
                     THEN [info[d] EXCEPT !.resolvable = FALSE] ELSE info[d]]
PunishAlt0(altState) ==
    [d \in Disks |-> IF d = AltDisk(0) /\ altState = "punished" THEN "full" ELSE "none"]

\* Gets of one blob under every reachability of the units.
InitReach ==
    \E size \in 1 .. MaxSize, x \in 0 .. 1, reach \in ReachSets,
       info \in {AllLocal, DataLocal}, off \in 0 .. 1 :
        /\ off < size
        /\ Start(Loc(size, MaxBlobSize, OneRun(1, 1)), size - off, off, x,
                 InfoOf(info, reach), AnswerOf(reach), NotMoved, "none", 0, FALSE,
                 NoPunish, {})

\* Gets of one blob under every answer class of unit 0.
InitAnswers ==
    \E size \in {MinShardSize, MaxSize}, x \in 0 .. 1, a \in Answers, moved \in BOOLEAN,
       alt \in {"ok", "notfound", "timeout"}, altState \in {"fine", "punished", "nohost"},
       verr \in {"none", "forced"} :
        /\ ~moved => (alt = "ok" /\ altState = "fine")
        /\ Start(Loc(size, MaxBlobSize, OneRun(1, 1)), size, 0, x,
                 InfoAlt0(DataLocal, altState), AnswerUnit0(a, alt), MovedUnit0(moved),
                 verr, 0, FALSE, PunishAlt0(altState), {})

\* Gets of one blob whose encoder, writer or volume lookup fails.
InitFailures ==
    \E size \in {MinShardSize, MaxSize}, x \in 0 .. 1, reach \in ReachSets,
       env \in {"encoder", "write1", "write2", "volume", "lost"} :
        Start(Loc(size, MaxBlobSize, OneRun(1, 1)), size, 0, x,
              InfoOf(DataLocal, reach), AnswerOf(reach), NotMoved,
              IF env = "volume" THEN "all" ELSE "none",
              IF env = "write1" THEN 1 ELSE IF env = "write2" THEN 2 ELSE 0,
              env = "encoder", NoPunish, IF env = "lost" THEN {1} ELSE {})

InitBlob == InitReach \/ InitAnswers \/ InitFailures

BlobStep(b) ==
    \/ LaunchInitial(b)
    \/ LaunchNext(b)
    \/ LaunchStop(b)
    \/ CloseShardPipe(b)
    \/ \E i \in Units : ShardAttempt(b, i)
    \/ \E i \in Units : MainRecv(b, i)
    \/ \E i \in Units : DrainRecv(b, i)

NextBlob ==
    \/ GetCall
    \/ GetEntry
    \/ FastAttempt
    \/ FastWrite
    \/ PipelineStartBlob
    \/ PipelineEnd
    \/ PipelineSend
    \/ PipelineSendErr
    \/ WriterRecv
    \/ WriteChunk
    \/ \E b \in BlobIdx : BlobStep(b)

SpecBlob == InitBlob /\ [][NextBlob]_vars

\* The Go scheduler runs every goroutine that can take a step.  No step of a Get
\* can be taken forever, so it is enough to require that a Get with some
\* goroutine able to step does step.
FairBlob == WF_vars(NextBlob)

\* Whole-blob Gets for the progress properties: a small and a large blob under
\* every reachability of the units, and every answer class of unit 0 with the disk it may have moved to.
InitLive ==
    \/ \E size \in {MinShardSize, MaxSize}, x \in 0 .. 1, reach \in ReachSets :
          Start(Loc(size, MaxBlobSize, OneRun(1, 1)), size, 0, x,
                InfoOf(DataLocal, reach), AnswerOf(reach), NotMoved, "none", 0, FALSE,
                NoPunish, {})
    \/ \E a \in Answers, moved \in BOOLEAN, alt \in {"ok", "timeout"},
          altState \in {"fine", "punished"} :
          /\ ~moved => (alt = "ok" /\ altState = "fine")
          /\ Start(Loc(MaxSize, MaxBlobSize, OneRun(1, 1)), MaxSize, 0, 0,
                   InfoAlt0(DataLocal, altState), AnswerUnit0(a, alt), MovedUnit0(moved),
                   "none", 0, FALSE, PunishAlt0(altState), {})

FairSpecBlob == InitLive /\ [][NextBlob]_vars /\ FairBlob

\* ------------------------------------------------------- Gets of two blobs
TwoRuns == <<[Vid |-> 1, MinBid |-> 1, Count |-> 1], [Vid |-> 2, MinBid |-> 7, Count |-> 1]>>

ReachPatterns ==
    {[i \in Units |-> "ok"],
     [i \in Units |-> IF i = 0 THEN "broken" ELSE "ok"],
     [i \in Units |-> IF i <= TacticM THEN "broken" ELSE "ok"]}

\* Gets of two blobs that succeed unless the broken unit 0 prevents it.
InitBytes ==
    \E size \in {MaxBlobSize + 1, 2 * MaxBlobSize},
       runs \in {OneRun(1, 2), TwoRuns}, off \in 0 .. 1, cut \in 0 .. 1, x \in 0 .. 1,
       broken \in BOOLEAN :
        /\ off + cut <= 1
        /\ Start(Loc(size, MaxBlobSize, runs), size - off - cut, off, x,
                 DataLocal, AnswerUnit0(IF broken THEN "broken" ELSE "ok", "ok"),
                 NotMoved, "none", 0, FALSE, NoPunish, {})

\* Gets of two blobs whose writer fails, or whose units or second blob are lost.
InitErrors ==
    \E reach \in ReachPatterns, wfail \in 0 .. 3, gone \in {{}, {2}} :
        Start(Loc(2 * MaxBlobSize, MaxBlobSize, OneRun(1, 2)), 2 * MaxBlobSize, 0, 0,
              InfoOf(DataLocal, reach), AnswerOf(reach), NotMoved, "none", wfail,
              FALSE, NoPunish, gone)

\* Gets of two blobs of two volumes on different disks: the units of volume 1
\* are on the disks 0 .. N+M-1, those of volume 2, whose cache entry is fresh,
\* on the disks after them, some of which have no host.
InitElsewhere ==
    \E nohost \in SUBSET Units, wfail \in 0 .. 1 :
        /\ GetStartWith(Loc(2 * MaxBlobSize, MaxBlobSize, TwoRuns), 2 * MaxBlobSize, 0, 0,
                        [d \in Disks |->
                            IF \E i \in nohost : d = AltDisk(i)
                            THEN [DataLocal[d] EXCEPT !.resolvable = FALSE]
                            ELSE DataLocal[d]],
                        AllOk, [i \in Units |-> AltDisk(i)], "none", wfail, FALSE,
                        NoPunish, {}, {},
                        [v \in Vids |-> IF v = 2 THEN "fresh" ELSE "cached"])
        /\ NoTaskRunner

InitGet == InitBytes \/ InitErrors \/ InitElsewhere


NextGet ==
    \/ GetCall
    \/ GetEntry
    \/ PipelineStartBlob
    \/ PipelineEnd
    \/ PipelineSend
    \/ PipelineClosed
    \/ PipelineSendErr
    \/ WriterRecv
    \/ WriteChunk
    \/ \E b \in BlobIdx : BlobStep(b)

SpecGet == InitGet /\ [][NextGet]_vars

\* The blob size of the Gets of four blobs: their 4 * AheadBlobSize bytes are
\* fewer than Uint64Mod, and both data shards of a blob hold bytes.
AheadBlobSize == MaxBlobSize - 1

\* Gets of four blobs of one volume, whose unit 0 may be broken, whose writer
\* may fail and whose last blob may be lost; and a Get of two blobs that reads
\* one shard more than the N a blob needs.
InitAhead ==
    \/ \E broken \in BOOLEAN, wfail \in {0, 2, 5}, gone \in {{}, {4}} :
        Start(Loc(4 * AheadBlobSize, AheadBlobSize, OneRun(1, 4)), 4 * AheadBlobSize, 0, 0,
              DataLocal, AnswerUnit0(IF broken THEN "broken" ELSE "ok", "ok"),
              NotMoved, "none", wfail, FALSE, NoPunish, gone)
    \/ Start(Loc(2 * AheadBlobSize, AheadBlobSize, OneRun(1, 2)), 2 * AheadBlobSize, 0, 1,
             DataLocal, AnswerUnit0("ok", "ok"), NotMoved, "none", 0, FALSE, NoPunish, {})

SpecAhead == InitAhead /\ [][NextGet]_vars

\* ------------------------------------------- genSortedVuidByIDC on its own
InitSort ==
    \E moved \in BOOLEAN, idcs \in [Units -> {"local", "other"}],
       nohost \in SUBSET Units, pun \in SUBSET Units, kind \in {"full", "threshold"} :
        /\ Cardinality(nohost) <= 1
        /\ Start(Loc(1, 1, OneRun(1, 1)), 1, 0, 0,
                 [d \in Disks |-> [idc |-> idcs[d % (TacticN + TacticM)],
                                   resolvable |-> (d % (TacticN + TacticM)) \notin nohost]],
                 AllOk, MovedUnit0(moved), "none", 0, FALSE,
                 [d \in Disks |-> IF (d % (TacticN + TacticM)) \in pun THEN kind
                                  ELSE "none"], {})

\* genSortedVuidByIDC(ctx, serviceController, idc, vuidPhys) on the volume units
SortCall ==
    /\ sortOut = <<>>
    /\ \E sorted \in genSortedVuidByIDC(upstreamUnits, diskInfo, PunishedDisks) :
         sortOut' = <<sorted>>
    /\ UNCHANGED <<inputVars, sharedVars, getVars, pipeVars, blobVars, obsVars>>

SpecSort == InitSort /\ [][SortCall]_vars

\* ------------------------------------------------------ Get: the fast path
\* Units 0 and 1 answer a0 and a1, the other units answer ok.
AnswerUnits01(a0, a1) ==
    [d \in Disks |-> IF d = 0 THEN a0 ELSE IF d = 1 THEN a1 ELSE "ok"]

\* Short reads of one large blob, and reads over two small blobs, with units
\* 0 and 1 answering in every class.
InitFast ==
    \/ \E rs \in 1 .. (FastBlobSize \div 4), off \in 0 .. (FastBlobSize - 1),
          a0 \in Answers, a1 \in {"ok", "short", "broken"} :
          /\ off + rs <= FastBlobSize
          /\ Start(Loc(FastBlobSize, FastBlobSize, OneRun(1, 1)), rs, off, 0,
                   DataLocal, AnswerUnits01(a0, a1), NotMoved, "none", 0, FALSE,
                   NoPunish, {})
    \/ \E rs \in 1 .. (2 * MinShardSize), off \in 0 .. MinShardSize,
          a0 \in {"ok", "broken"}, verr \in {"none", "all"}, x \in 0 .. 1 :
          /\ off + rs <= 2 * MinShardSize
          /\ Start(Loc(2 * MinShardSize, MinShardSize, OneRun(1, 2)), rs, off, x,
                   DataLocal, AnswerUnits01(a0, "ok"), NotMoved, verr, 0, FALSE,
                   NoPunish, {})

SpecFast == InitFast /\ [][NextBlob]_vars

\* ------------------------------------------- Get: a pool that fails an Alloc
\* The buffers whose Alloc fails: none, the range buffer of the fast path, the
\* read buffer of one shard, or the pre-allocated buffer of one shard (not the
\* first, whose length readOneBlob takes as the shard size).
AllocFailSets(size) ==
    {{}, {RangeBuf}} \cup {{ReadBuf(1, i)} : i \in Units}
    \cup {{PreBuf(1, i)} : i \in Units \ {0}}

InitAlloc ==
    \E size \in {MinShardSize, MaxSize}, x \in 0 .. 1,
       reach \in [Units -> {"ok", "broken"}] :
       \E af \in AllocFailSets(size) :
        StartAt(Loc(size, MaxBlobSize, OneRun(1, 1)), size, 0, x,
                DataLocal, AnswerOf(reach), NotMoved, "none", 0, FALSE, NoPunish, {}, af)

SpecAlloc == InitAlloc /\ [][NextBlob]_vars

\* ------------------------------------------------ Get: argument validation
\* Number of blobs needed to hold size bytes.
BlobCount(size, blobSize) == IF blobSize = 0 THEN 1 ELSE (size + blobSize - 1) \div blobSize

\* location.Blobs of count blobs: one run, or two runs in two volumes.
RunsOf(count) ==
    {<<[Vid |-> 1, MinBid |-> 1, Count |-> count]>>}
    \cup {<<[Vid |-> 1, MinBid |-> 1, Count |-> c],
            [Vid |-> 2, MinBid |-> 5, Count |-> count - c]>> : c \in 1 .. (count - 1)}

\* Every Get call: any size, blob size, offset and read size, on a location
\* that lists the blobs its size needs, one blob less or one more.
InitLoc ==
    \E size \in 0 .. (Uint64Mod - 1), blobSize \in 0 .. MaxBlobSize,
       off \in 0 .. (Uint64Mod - 1), rs \in 0 .. (Uint64Mod - 1), delta \in {-1, 0, 1} :
       \E runs \in RunsOf(Max(BlobCount(size, blobSize) + delta, 0)) :
        /\ Len(runs) = 1 \/ (size = Uint64Mod - 1 /\ delta = 0)
        /\ Start(Loc(size, blobSize, runs), rs, off, 0, AllLocal, AllOk, NotMoved,
                 "none", 0, FALSE, NoPunish, {})

SpecLoc == InitLoc /\ [][GetCall]_vars

\* ------------------------------------------------- punishment and the clock
\* Time passes.
Tick ==
    /\ now < MaxTime
    /\ now' = now + 1
    /\ UNCHANGED <<location, readSize, offset, minReadShardsX, diskInfo, answer,
                   upstreamUnits, volumeErr, writeFailAt, encoderErr, lost, allocFail,
                   taskVars, sharedVars, getVars, pipeVars, blobVars, obsVars, sortOut>>

\* Gets of one blob whose units answer ok or DiskBroken.
InitPunish ==
    \E size \in {MinShardSize, MaxSize}, reach \in [Units -> {"ok", "broken"}],
       info \in {AllLocal, DataLocal} :
        Start(Loc(size, MaxBlobSize, OneRun(1, 1)), size, 0, 0,
              info, AnswerOf(reach), NotMoved, "none", 0, FALSE, NoPunish, {})

\* A Get while time passes, and another Get that computes its read order at
\* some time during or after it.
NextPunish == NextBlob \/ Tick \/ SortCall

SpecPunish == InitPunish /\ [][NextPunish]_vars

\* ============================================================== TaskRunner
\* The variables of the access path, which the task runner leaves alone.
accessVars == <<location, readSize, offset, minReadShardsX, diskInfo, answer, upstreamUnits,
                volumeErr, writeFailAt, encoderErr, lost, allocFail, now, sharedVars,
                getVars, pipeVars, blobVars, obsVars, sortOut>>

\* A Get that is not part of the run of a task.
NoGet ==
    GetStartAt(Loc(1, 1, OneRun(1, 1)), 1, 0, 0, AllLocal, AllOk, NotMoved, "none", 0,
               FALSE, NoPunish, {}, {})

\* cancelOrReclaim(retErr): ReclaimTask or CancelTask, and the deferred
\* setStatus(TaskStopped).
cancelOrReclaim(retErr) ==
    /\ reports' = Append(reports, [call |-> IF ShouldReclaim(retErr) THEN "ReclaimTask"
                                             ELSE "CancelTask",
                                    reason |-> retErr])
    /\ state' = setStatus(state, TaskStopped)

\* completeTask(): CompleteTask, and the deferred setStatus(TaskSuccess).
completeTask ==
    /\ reports' = Append(reports, [call |-> "CompleteTask", reason |-> NoFail])
    /\ state' = setStatus(state, TaskSuccess)

\* Run: r.state.setStatus(TaskRunning)
RunStart ==
    /\ runPC = "new"
    /\ state' = setStatus(state, TaskRunning)
    /\ runPC' = "gen"
    /\ UNCHANGED <<accessVars, workerVars, stopReason, ctxDone, stopMu, tasklet, stopPC,
                   reasonSynced, reports, executed, stopCalls, reasonAtWait, statusCalls>>

\* Run: GenTasklets, and on success every tasklet is put into the pool.
RunGen ==
    /\ runPC = "gen"
    /\ IF genErr # "none"
       THEN /\ cancelOrReclaim(Fail(genErr, "GenTasklets", 0))
            /\ runPC' = "done"
            /\ tasklet' = tasklet
       ELSE /\ tasklet' = [i \in Tasklets |-> "queued"]
            /\ runPC' = "wait"
            /\ UNCHANGED <<reports, state>>
    /\ UNCHANGED <<accessVars, workerVars, stopReason, ctxDone, stopMu, stopPC,
                   reasonSynced, executed, stopCalls, reasonAtWait, statusCalls>>

\* taskpool: a worker of the pool is free to run a queued function.
PoolHasFreeWorker ==
    Cardinality({j \in Tasklets : tasklet[j] \in {"exec", "locked"}}) < concurrency

\* execTaskletWrap starts: a cancelled context skips the tasklet, else
\* ExecTasklet is called.
WrapStart(i) ==
    /\ tasklet[i] = "queued"
    /\ PoolHasFreeWorker
    /\ IF ctxDone
       THEN /\ tasklet' = [tasklet EXCEPT ![i] = "skipped"]
            /\ executed' = executed
       ELSE /\ tasklet' = [tasklet EXCEPT ![i] = "exec"]
            /\ executed' = executed \cup {i}
    /\ UNCHANGED <<accessVars, workerVars, state, stopReason, ctxDone, stopMu, runPC,
                   stopPC, reasonSynced, reports, stopCalls, reasonAtWait, statusCalls>>

\* ExecTasklet returns nil: the report of the progress, and wg.Done.
ExecOk(i) ==
    /\ tasklet[i] = "exec"
    /\ execErr[i] = "none"
    /\ tasklet' = [tasklet EXCEPT ![i] = "ok"]
    /\ UNCHANGED <<accessVars, workerVars, state, stopReason, ctxDone, stopMu, runPC,
                   stopPC, reasonSynced, reports, executed, stopCalls, reasonAtWait,
                   statusCalls>>

\* stopWithFail up to r.cancel(): stopMu is taken and the first reason kept.
recordFail(fail) == IF stopReason = NoFail THEN fail ELSE stopReason

\* ExecTasklet returns an error: stopWithFail(retErr) up to r.cancel().
ExecFail(i) ==
    /\ tasklet[i] = "exec"
    /\ execErr[i] # "none"
    /\ stopMu = "free"
    /\ stopMu' = "execTaskletWrap"
    /\ stopCalls' = Append(stopCalls, Fail(execErr[i], "ExecTasklet", i))
    /\ stopReason' = recordFail(Fail(execErr[i], "ExecTasklet", i))
    \* wg.Done of this wrapper comes after the unlock of stopMu
    /\ reasonSynced' = TRUE
    /\ tasklet' = [tasklet EXCEPT ![i] = "locked"]
    /\ UNCHANGED <<accessVars, workerVars, state, ctxDone, runPC, stopPC, reports,
                   executed, reasonAtWait, statusCalls>>

\* stopWithFail of a wrapper: r.cancel(), the unlock, and wg.Done.
FailCancel(i) ==
    /\ tasklet[i] = "locked"
    /\ ctxDone' = TRUE
    /\ stopMu' = "free"
    /\ tasklet' = [tasklet EXCEPT ![i] = "failed"]
    /\ UNCHANGED <<accessVars, workerVars, state, stopReason, runPC, stopPC, reasonSynced,
                   reports, executed, stopCalls, reasonAtWait, statusCalls>>

\* Run: wg.Wait() returns and the pool is closed.
RunWait ==
    /\ runPC = "wait"
    /\ \A i \in Tasklets : tasklet[i] \in {"ok", "failed", "skipped"}
    /\ runPC' = "cancel"
    /\ reasonAtWait' = (stopReason # NoFail)
    /\ UNCHANGED <<accessVars, workerVars, state, stopReason, ctxDone, stopMu, tasklet,
                   stopPC, reasonSynced, reports, executed, stopCalls, statusCalls>>

\* Run: r.cancel()
RunCancel ==
    /\ runPC = "cancel"
    /\ ctxDone' = TRUE
    /\ runPC' = "read"
    /\ UNCHANGED <<accessVars, workerVars, state, stopReason, stopMu, tasklet, stopPC,
                   reasonSynced, reports, executed, stopCalls, reasonAtWait, statusCalls>>

\* What `r.stopReason != nil` of Run can read: Run does not take stopMu, so a
\* write of Stop that is not ordered before the read may or may not be seen.
SeenReasons ==
    IF stopReason = NoFail \/ reasonSynced THEN {stopReason} ELSE {NoFail, stopReason}

\* Run: if r.stopReason != nil { r.cancelOrReclaim(r.stopReason); return }
RunRead ==
    /\ runPC = "read"
    /\ \E seen \in SeenReasons :
         IF seen # NoFail
         THEN /\ cancelOrReclaim(seen)
              /\ runPC' = "done"
         ELSE /\ runPC' = "check"
              /\ UNCHANGED <<reports, state>>
    /\ UNCHANGED <<accessVars, workerVars, stopReason, ctxDone, stopMu, tasklet, stopPC,
                   reasonSynced, executed, stopCalls, reasonAtWait, statusCalls>>

\* Run: Check, then cancelOrReclaim or completeTask.
RunCheck ==
    /\ runPC = "check"
    /\ IF checkErr # "none"
       THEN cancelOrReclaim(Fail(checkErr, "Check", 0))
       ELSE completeTask
    /\ runPC' = "done"
    /\ UNCHANGED <<accessVars, workerVars, stopReason, ctxDone, stopMu, tasklet, stopPC,
                   reasonSynced, executed, stopCalls, reasonAtWait, statusCalls>>

\* Stop: r.state.setStatus(TaskStopping)
StopCall ==
    /\ stopPC = "idle"
    /\ state' = setStatus(state, TaskStopping)
    /\ stopPC' = "lock"
    /\ UNCHANGED <<accessVars, workerVars, stopReason, ctxDone, stopMu, runPC, tasklet,
                   reasonSynced, reports, executed, stopCalls, reasonAtWait, statusCalls>>

\* Stop: stopWithFail(OtherError(errKilled)) up to r.cancel().
StopRecord ==
    /\ stopPC = "lock"
    /\ stopMu = "free"
    /\ stopMu' = "Stop"
    /\ stopCalls' = Append(stopCalls, Killed)
    /\ stopReason' = recordFail(Killed)
    /\ stopPC' = "cancel"
    /\ UNCHANGED <<accessVars, workerVars, state, ctxDone, runPC, tasklet, reasonSynced,
                   reports, executed, reasonAtWait, statusCalls>>

\* Stop: r.cancel() and the unlock.  The cancel takes the mutex of the context,
\* which orders the write of Stop before the read of Run if Run has not yet
\* called r.cancel() itself.
StopCancel ==
    /\ stopPC = "cancel"
    /\ ctxDone' = TRUE
    /\ stopMu' = "free"
    /\ stopPC' = "done"
    /\ reasonSynced' = (reasonSynced \/ runPC \in {"new", "gen", "wait", "cancel"})
    /\ UNCHANGED <<accessVars, workerVars, state, stopReason, runPC, tasklet, reports,
                   executed, stopCalls, reasonAtWait, statusCalls>>

\* One task: every behaviour of its worker, with up to MaxTasklets tasklets.
InitRunner ==
    /\ NoGet
    /\ NewBlockingKeyCountLimit
    /\ NoBidMgr
    /\ \E conc \in 1 .. MaxConcurrency, check \in {"none"} \cup WorkErrors :
         \/ \E gen \in WorkErrors : NewTaskRunner(gen, 0, <<>>, check, conc)
         \/ \E n \in 0 .. MaxTasklets :
              \E exec \in [1 .. n -> {"none", DstErr, OtherErr}] :
                 NewTaskRunner("none", n, exec, check, conc)

NextRunner ==
    \/ RunStart
    \/ RunGen
    \/ \E i \in Tasklets : WrapStart(i)
    \/ \E i \in Tasklets : ExecOk(i)
    \/ \E i \in Tasklets : ExecFail(i)
    \/ \E i \in Tasklets : FailCancel(i)
    \/ RunWait
    \/ RunCancel
    \/ RunRead
    \/ RunCheck
    \/ StopCall
    \/ StopRecord
    \/ StopCancel

SpecRunner == InitRunner /\ [][NextRunner]_vars

\* --------------------------------------------- TaskState called on its own
\* ts.setStatus(s)
SetStatusCall(s) ==
    /\ Len(statusCalls) < MaxCalls
    /\ state' = setStatus(state, s)
    /\ statusCalls' = Append(statusCalls, s)
    /\ UNCHANGED <<accessVars, workerVars, stopReason, ctxDone, stopMu, runPC, tasklet,
                   stopPC, reasonSynced, reports, executed, stopCalls, reasonAtWait>>

\* A TaskState{} (state 0), or the TaskState of a new runner.
InitState ==
    /\ NoGet
    /\ NewBlockingKeyCountLimit
    /\ NoBidMgr
    /\ genErr = "none" /\ tasklets = 0 /\ execErr = <<>> /\ checkErr = "none"
    /\ concurrency = 1
    /\ state \in {0, setStatus(0, TaskInit)}
    /\ stopReason = NoFail /\ ctxDone = FALSE /\ stopMu = "free"
    /\ runPC = "new" /\ stopPC = "idle"
    /\ tasklet = <<>>
    /\ reasonSynced = FALSE
    /\ reports = <<>> /\ executed = {} /\ stopCalls = <<>> /\ reasonAtWait = FALSE
    /\ statusCalls = <<>>

NextState == \E s \in TaskStates : SetStatusCall(s)

SpecState == InitState /\ [][NextState]_vars

\* ==================================================== blockingKeyCountLimit
\* What no step of the limiter changes.
notLimitVars == <<accessVars, genErr, tasklets, execErr, checkErr, concurrency, runnerVars,
                  statusCalls, bidVars>>

\* The calls a goroutine may make: Acquire of one key, or of two keys.
KeyLists == {<<k>> : k \in LimitKeys} \cup {<<1, 2>>}

\* s := newBlocker(n): a ready channel of capacity n, filled with n tokens.
newBlocker(rdy, id) == [rdy EXCEPT ![id] = LimitN]

\* Acquire is called.
AcquireCall(g, keys) ==
    /\ caller[g].pc = "idle"
    /\ caller' = [caller EXCEPT ![g] =
          [pc |-> IF Len(keys) > 1 THEN "multi" ELSE "single", keys |-> keys,
           kls |-> <<>>, idx |-> 0]]
    /\ UNCHANGED <<keyMap, lock, ready, ref, blockers, notLimitVars>>

\* for single key: l.lock.RLock(); kl := l.keyMap[key]; then RUnlock without a
\* blocker, or kl.addRef() and RUnlock.
AcquireRead(g) ==
    /\ caller[g].pc = "single"
    /\ lock = 0
    /\ LET kl == keyMap[caller[g].keys[1]] IN
         IF kl = 0
         THEN /\ caller' = [caller EXCEPT ![g].pc = "create"]
              /\ ref' = ref
         ELSE /\ caller' = [caller EXCEPT ![g].pc = "acquire", ![g].kls = <<kl>>]
              /\ ref' = [ref EXCEPT ![kl] = @ + 1]
    /\ UNCHANGED <<keyMap, lock, ready, blockers, notLimitVars>>

\* The blocker that the single-key Acquire puts into the map for a key that
\* had none when it looked: a new one, whatever the map holds by now.
createdBlocker(key, id) == id

\* l.lock.Lock(); kl = newBlocker(l.limit); l.keyMap[key] = kl; kl.addRef();
\* l.lock.Unlock()
AcquireCreate(g) ==
    /\ caller[g].pc = "create"
    /\ lock = 0
    /\ blockers < MaxBlockers
    /\ LET key == caller[g].keys[1]
           kl == createdBlocker(key, blockers + 1)
       IN  /\ blockers' = IF kl = blockers + 1 THEN blockers + 1 ELSE blockers
           /\ ready' = IF kl = blockers + 1 THEN newBlocker(ready, kl) ELSE ready
           /\ keyMap' = [keyMap EXCEPT ![key] = kl]
           /\ ref' = [ref EXCEPT ![kl] = @ + 1]
           /\ caller' = [caller EXCEPT ![g].pc = "acquire", ![g].kls = <<kl>>]
    /\ UNCHANGED <<lock, notLimitVars>>

\* kl.acquire() of the single-key Acquire: <-s.ready, and Acquire returns.
AcquireToken(g) ==
    /\ caller[g].pc = "acquire"
    /\ ready[caller[g].kls[1]] > 0
    /\ ready' = [ready EXCEPT ![caller[g].kls[1]] = @ - 1]
    /\ caller' = [caller EXCEPT ![g].pc = "holding"]
    /\ UNCHANGED <<keyMap, lock, ref, blockers, notLimitVars>>

\* The first loop of the multi-key Acquire over keys, from a map m with made
\* blockers: the blocker of each key, made if the key has none.
RECURSIVE lookupOrMake(_, _, _, _)
lookupOrMake(keys, m, made, kls) ==
    IF keys = <<>> THEN [keyMap |-> m, blockers |-> made, kls |-> kls]
    ELSE LET key == Head(keys) IN
         IF m[key] # 0
         THEN lookupOrMake(Tail(keys), m, made, Append(kls, m[key]))
         ELSE lookupOrMake(Tail(keys), [m EXCEPT ![key] = made + 1], made + 1,
                           Append(kls, made + 1))

\* l.lock.Lock() and the first loop of the multi-key Acquire.
AcquireLock(g) ==
    /\ caller[g].pc = "multi"
    /\ lock = 0
    /\ LET r == lookupOrMake(caller[g].keys, keyMap, blockers, <<>>) IN
         /\ r.blockers <= MaxBlockers
         /\ keyMap' = r.keyMap
         /\ blockers' = r.blockers
         /\ ready' = [id \in BlockerIds |->
                        IF id > blockers /\ id <= r.blockers THEN LimitN ELSE ready[id]]
         /\ caller' = [caller EXCEPT ![g].pc = "acquireAll", ![g].kls = r.kls,
                                     ![g].idx = 1]
    /\ lock' = g
    /\ UNCHANGED <<ref, notLimitVars>>

\* Whether the multi-key Acquire gives l.lock up before it waits for a token.
waitsUnlocked == FALSE

\* One iteration of the second loop of the multi-key Acquire, under l.lock:
\* atomic.AddInt32(&kl.ref, 1); kl.acquire(); after the last, l.lock.Unlock().
\* (ref is read under l.lock only, so the add is not seen before the token is
\* taken.)
AcquireNext(g) ==
    /\ caller[g].pc = "acquireAll"
    /\ lock = g \/ (waitsUnlocked /\ lock = 0)
    /\ LET kl == caller[g].kls[caller[g].idx] IN
         /\ ready[kl] > 0
         /\ ref' = [ref EXCEPT ![kl] = @ + 1]
         /\ ready' = [ready EXCEPT ![kl] = @ - 1]
         /\ IF caller[g].idx = Len(caller[g].kls)
            THEN /\ caller' = [caller EXCEPT ![g].pc = "holding"]
                 /\ lock' = 0
            ELSE /\ caller' = [caller EXCEPT ![g].idx = @ + 1]
                 /\ lock' = IF waitsUnlocked THEN 0 ELSE g
    /\ UNCHANGED <<keyMap, blockers, notLimitVars>>

\* Release is called with the keys of the Acquire.
ReleaseCall(g) ==
    /\ caller[g].pc = "holding"
    /\ caller' = [caller EXCEPT ![g].pc = "release", ![g].kls = <<>>, ![g].idx = 0]
    /\ UNCHANGED <<keyMap, lock, ready, ref, blockers, notLimitVars>>

\* The first loop of Release over keys: a key without an entry or a blocker
\* with negative ref panics; the entry of a blocker with ref 0 is deleted.
RECURSIVE collect(_, _, _)
collect(keys, m, kls) ==
    IF keys = <<>> THEN [keyMap |-> m, kls |-> kls, panic |-> FALSE]
    ELSE LET key == Head(keys)
             kl == m[key]
         IN  IF kl = 0 \/ ref[kl] < 0 THEN [keyMap |-> m, kls |-> kls, panic |-> TRUE]
             ELSE collect(Tail(keys),
                          IF ref[kl] = 0 THEN [m EXCEPT ![key] = 0] ELSE m,
                          Append(kls, kl))

\* l.lock.Lock() and the first loop of Release.
ReleaseLock(g) ==
    /\ caller[g].pc = "release"
    /\ lock = 0
    /\ LET r == collect(caller[g].keys, keyMap, <<>>) IN
         /\ keyMap' = r.keyMap
         /\ IF r.panic
            THEN /\ caller' = [caller EXCEPT ![g].pc = "panic"]
                 /\ lock' = 0
            ELSE /\ caller' = [caller EXCEPT ![g].pc = "releaseAll", ![g].kls = r.kls,
                                             ![g].idx = 1]
                 /\ lock' = g
    /\ UNCHANGED <<ready, ref, blockers, notLimitVars>>

\* One iteration of the second loop of Release, under l.lock: kl.release(),
\* that is s.subRef(); s.ready <- struct{}{}; after the last, l.lock.Unlock().
\* (The send waits while the channel is full; ref is read under l.lock only.)
ReleaseNext(g) ==
    /\ caller[g].pc = "releaseAll"
    /\ lock = g
    /\ LET kl == caller[g].kls[caller[g].idx] IN
         /\ ready[kl] < LimitN
         /\ ref' = [ref EXCEPT ![kl] = @ - 1]
         /\ ready' = [ready EXCEPT ![kl] = @ + 1]
         /\ IF caller[g].idx = Len(caller[g].kls)
            THEN /\ caller' = [caller EXCEPT ![g].pc = "done"]
                 /\ lock' = 0
            ELSE /\ caller' = [caller EXCEPT ![g].idx = @ + 1]
                 /\ lock' = g
    /\ UNCHANGED <<keyMap, blockers, notLimitVars>>

LimitStep(g) ==
    \/ \E keys \in KeyLists : AcquireCall(g, keys)
    \/ AcquireRead(g)
    \/ AcquireCreate(g)
    \/ AcquireToken(g)
    \/ AcquireLock(g)
    \/ AcquireNext(g)
    \/ ReleaseCall(g)
    \/ ReleaseLock(g)
    \/ ReleaseNext(g)

InitLimit ==
    NoGet /\ NewTaskRunner("none", 0, <<>>, "none", 1) /\ NewBlockingKeyCountLimit /\ NoBidMgr

NextLimit == \E g \in Callers : LimitStep(g)

SpecLimit == InitLimit /\ [][NextLimit]_vars

\* The Go scheduler runs every goroutine that can take a step.
FairSpecLimit == SpecLimit /\ \A g \in Callers : WF_vars(LimitStep(g))

\* ================================================================== bidMgr
\* What no step of the bidMgr changes.
notBidVars == <<accessVars, genErr, tasklets, execErr, checkErr, concurrency, runnerVars,
                statusCalls, limitVars>>

BidRange(lo, hi) == [StartBid |-> lo, EndBid |-> hi]

\* Whether Alloc takes count as it is: only a count above BidAllocNums is
\* refused.
illegalCount(count) == count > BidAllocNums

\* The bids Alloc takes from b.backup when b.current has too few.
bidCountRemainWhole(count, cur) == count
bidCountRemain(count, cur) == SubU64(count, AddU64(SubU64(cur.maxBid, cur.minBid), 1))

\* The body of Alloc under b.mu: the ranges and the error it returns and the
\* scopes it leaves.
allocRanges(cur, bak, count) ==
    LET fail(e) == [ranges |-> <<>>, err |-> e, current |-> cur, backup |-> bak] IN
    IF illegalCount(count) THEN fail("ErrIllegalArguments")
    ELSE IF cur.nil THEN fail("ErrAllocBidFromCm")
    ELSE IF SubU64(AddU64(count, cur.minBid), 1) <= cur.maxBid
    THEN \* b.current has enough range
         LET br == BidRange(cur.minBid, SubU64(AddU64(cur.minBid, count), 1))
             minBid == AddU64(cur.minBid, count)
             currentCount == AddU64(SubU64(cur.maxBid, minBid), 1)
         IN  IF currentCount = 0
             THEN [ranges |-> <<br>>, err |-> "nil", current |-> bak, backup |-> NoScope]
             ELSE [ranges |-> <<br>>, err |-> "nil",
                   current |-> [cur EXCEPT !.minBid = minBid], backup |-> bak]
    ELSE \* take all bids from b.current, the bids left from b.backup
         LET br1 == BidRange(cur.minBid, cur.maxBid)
             remain == bidCountRemain(count, cur)
         IN  IF bak.nil THEN fail("ErrAllocBidFromCm")
             ELSE [ranges |-> <<br1, BidRange(bak.minBid,
                                              SubU64(AddU64(bak.minBid, remain), 1))>>,
                   err |-> "nil",
                   current |-> [bak EXCEPT !.minBid = AddU64(bak.minBid, remain)],
                   backup |-> NoScope]

\* Alloc(ctx, count), the whole call under b.mu; the deferred function wakes
\* allocBidLoop when b.backup is nil and the loop waits on allocCh.
bidMgrAlloc(count) ==
    /\ Len(allocs) < MaxAllocs
    /\ LET r == allocRanges(current, backup, count) IN
         /\ current' = r.current
         /\ backup' = r.backup
         /\ allocs' = Append(allocs, [count |-> count, ranges |-> r.ranges, err |-> r.err])
         /\ bidLoop' = IF r.backup.nil /\ bidLoop.pc = "wait"
                       THEN [bidLoop EXCEPT !.pc = "fetch"] ELSE bidLoop
    /\ UNCHANGED <<scopeBase, obtained, notBidVars>>

\* The cluster manager counts its bids up from 1 and they stay far below
\* 2^64: no sum of a bid and a count wraps.
MaxScopeBid == Uint64Mod - BidAllocNums - 1

\* ScopeMgr.Alloc of the cluster manager: the next count bids, never handed
\* out before; it fails when the bids run out.
ScopeMgrAlloc(base, count) ==
    IF base + count - 1 <= MaxScopeBid THEN [ok |-> TRUE, base |-> base, end |-> base + count - 1]
    ELSE [ok |-> FALSE, base |-> 0, end |-> 0]

\* Another allocator gets a scope from the cluster manager.
BidAllocElsewhere ==
    /\ ScopeMgrAlloc(scopeBase, BidAllocNums).ok
    /\ scopeBase' = ScopeMgrAlloc(scopeBase, BidAllocNums).end + 1
    /\ UNCHANGED <<current, backup, bidLoop, obtained, allocs, notBidVars>>

\* allocBid up to the lock: b.clusterMgr.AllocBid, tried up to three times;
\* without a scope allocBidLoop waits on allocCh again.
allocBidFetch ==
    /\ bidLoop.pc = "fetch"
    /\ \E answers \in BOOLEAN :
         LET r == ScopeMgrAlloc(scopeBase, BidAllocNums) IN
           IF answers /\ r.ok
           THEN /\ bidLoop' = [pc |-> "store", scope |-> Scope(r.base, r.end)]
                /\ scopeBase' = r.end + 1
                /\ obtained' = obtained \cup (r.base .. r.end)
           ELSE /\ bidLoop' = [pc |-> "wait", scope |-> NoScope]
                /\ UNCHANGED <<scopeBase, obtained>>
    /\ UNCHANGED <<current, backup, allocs, notBidVars>>

\* allocBid under b.mu: the scope becomes b.backup, or b.current when there is
\* none.
allocBidStore ==
    /\ bidLoop.pc = "store"
    /\ IF ~current.nil
       THEN /\ backup' = bidLoop.scope
            /\ current' = current
       ELSE /\ current' = bidLoop.scope
            /\ backup' = NoScope
    /\ bidLoop' = [pc |-> "wait", scope |-> NoScope]
    /\ UNCHANGED <<scopeBase, obtained, allocs, notBidVars>>

InitBid ==
    /\ NoGet
    /\ NewTaskRunner("none", 0, <<>>, "none", 1)
    /\ NewBlockingKeyCountLimit
    /\ \E base \in {1, 1 + BidAllocNums} : NewBidMgrAt(base)

NextBid ==
    \/ \E count \in 0 .. (BidAllocNums + 1) : bidMgrAlloc(count)
    \/ BidAllocElsewhere
    \/ allocBidFetch
    \/ allocBidStore

SpecBid == InitBid /\ [][NextBid]_vars

\* ================================================================ properties
\* The sort key of an entry of a read order: 0 for a disk in the caller's IDC
\* and not punished, 1 for another IDC and not punished, 2 for the caller's IDC
\* and punished, 3 for another IDC and punished.
KeyOf(v) ==
    CASE diskInfo[v.diskID].idc = "local" /\ ~IsPunished(v.diskID) -> 0
      [] diskInfo[v.diskID].idc # "local" /\ ~IsPunished(v.diskID) -> 1
      [] diskInfo[v.diskID].idc = "local" /\ IsPunished(v.diskID) -> 2
      [] OTHER -> 3

\* C10: the order genSortedVuidByIDC returns is non-decreasing in the sort key
\* (so every punished disk comes after every non-punished one), holds each unit
\* whose disk host resolves exactly once and no other unit, and each entry's
\* index is the unit's position in the volume's unit list.
C10_SortedByDistance ==
    \A k \in DOMAIN sortOut :
        LET s == sortOut[k] IN
        /\ \A p, q \in 1 .. Len(s) : p < q => KeyOf(s[p]) <= KeyOf(s[q])
        /\ \A p, q \in 1 .. Len(s) :
              (IsPunished(s[p].diskID) /\ ~IsPunished(s[q].diskID)) => q < p
        /\ \A i \in Units :
              Cardinality({p \in 1 .. Len(s) : s[p].index = i})
                = IF diskInfo[upstreamUnits[i]].resolvable THEN 1 ELSE 0
        /\ \A p \in 1 .. Len(s) :
              s[p].index \in Units /\ s[p].diskID = upstreamUnits[s[p].index]

\* A returned order that leaves out a unit whose host does not resolve and puts
\* a punished disk of the caller's IDC after a non-punished disk of another IDC,
\* one of them a disk the unit was moved to.
C10_Witness ==
    /\ sortOut # <<>>
    /\ LET s == sortOut[1] IN
        /\ Len(s) = TacticN + TacticM - 1
        /\ KeyOf(s[1]) = 1 /\ KeyOf(s[Len(s)]) = 2
        /\ \E p \in 1 .. Len(s) : s[p].diskID # s[p].index

\* ---- what the claims call reachable, empty and read
\* Unit i can be read for blob bid: its disk host resolves and its disk returns
\* the shard, or the disk answers vuid-not-found and the disk the cluster
\* manager names instead resolves, is not punished and returns the shard.
UnitWorks(i, bid) ==
    /\ bid \notin lost
    /\ diskInfo[i].resolvable
    /\ \/ answer[i] = "ok"
       \/ /\ answer[i] = "notfound"
          /\ volumeErr = "none"
          /\ upstreamUnits[i] # i
          /\ diskInfo[upstreamUnits[i]].resolvable
          /\ ~IsPunished(upstreamUnits[i])
          /\ answer[upstreamUnits[i]] = "ok"

\* The data indices of blob b at or past ceil(DataSize / ShardSize).
ClaimEmpty(b) ==
    {i \in DataUnits :
        i >= (blobs[b].BlobSize + SizesOf(b).ShardSize - 1) \div SizesOf(b).ShardSize}

Unreachable(b) == {i \in Units \ ClaimEmpty(b) : ~UnitWorks(i, blobs[b].Bid)}

\* The general path has taken up blob b.
Started(b) ==
    /\ pipe.pc # "off"
    /\ pipe.k > b \/ (pipe.k = b /\ pipe.pc # "next")

\* The general path reads the one blob of a Get whose volume lookups, encoder
\* and writer do not fail, and at most M of the units are unreachable.
C1_Pre ==
    /\ Len(blobs) = 1 /\ Started(1)
    /\ volumeErr = "none" /\ writeFailAt = 0 /\ ~encoderErr
    /\ Cardinality({i \in Units : ~UnitWorks(i, blobs[1].Bid)}) <= TacticM

\* C1: in the general path, a Get of a blob of which at most M units are
\* unreachable, whose volume lookups, encoder and writer do not fail, ends with
\* success, whatever the order in which the shard outcomes arrive.
C1_GetSucceeds == C1_Pre ~> (getPC = "done" /\ result.kind = "ok")

\* A Get that succeeded in the general path with exactly M units unreachable,
\* by a reconstruction.
C1_Witness ==
    /\ C1_Pre /\ getPC = "done" /\ result.kind = "ok"
    /\ Cardinality({i \in Units : ~UnitWorks(i, blobs[1].Bid)}) = TacticM
    /\ reconstructs # <<>>
    /\ written # <<>>

\* C2 as stated: a Get of a blob with more than M units unreachable returns the
\* broken-blob error and never success.
C2_Original ==
    (getPC = "done" /\ Len(blobs) = 1 /\ volumeErr = "none" /\ writeFailAt = 0
       /\ Cardinality({i \in Units : ~UnitWorks(i, blobs[1].Bid)}) > TacticM)
    => result = Res("broken", 1)

\* C2: once the general path has taken up a blob b of which more than M of the
\* units that are not empty data indices are unreachable, the Get does not
\* return success; it returns the broken-blob error naming b, unless a volume
\* lookup or the writer failed, and then it returns that error.
C2_BrokenBlob ==
    \A b \in 1 .. Len(blobs) :
        (getPC = "done" /\ Started(b) /\ Cardinality(Unreachable(b)) > TacticM)
        => /\ result.kind \in {"broken", "volume", "write"}
           /\ result.kind = "broken" => result.blob = b
           /\ (volumeErr = "none" /\ (writeFailAt = 0 \/ writeCalls < writeFailAt))
                => result = Res("broken", b)

\* A Get that returned the broken-blob error for a blob whose shard tasks
\* failed on more than M units.
C2_Witness ==
    /\ getPC = "done" /\ Len(blobs) = 1 /\ Started(1)
    /\ Cardinality(Unreachable(1)) > TacticM
    /\ result = Res("broken", 1)
    /\ Cardinality({i \in Units : received[1][i] = "bad"}) > TacticM

\* C7 as stated: within the read of one blob a shard task does at most one
\* forced volume lookup.
C7_OneForcedLookup == \A b \in BlobIdx : \A i \in Units : forcedLookups[b][i] <= 1

\* C8: the data indices at or past ceil(DataSize / ShardSize) are never
\* requested from a blobnode, count as received with success from the start of
\* the blob read, and hold zeroes when the blob read has succeeded.
C8_EmptyIndexes ==
    \A b \in 1 .. Len(blobs) :
        mainLoop[b] # "off" =>
            \A i \in ClaimEmpty(b) :
                /\ gets[b][i] = 0
                /\ task[b][i].st = "idle"
                /\ received[b][i] = "ok"
                /\ mainLoop[b] = "ok" => shards[b][i].data = "zero"

\* A blob with an empty data index read with success through a reconstruction.
C8_Witness ==
    /\ Len(blobs) = 1 /\ mainLoop[1] = "ok" /\ ClaimEmpty(1) # {}
    /\ reconstructs # <<>>
    /\ \E i \in ClaimEmpty(1) : shards[1][i].data = "zero" /\ ~UnitWorks(i, blobs[1].Bid)

\* ---- C9
\* The read of blob b asks for the whole blob; every data unit is in the read
\* order on a disk that returns the shard; the first N entries of the read
\* order are the data units.
WholeBlob(b) == blobs[b].Offset = 0 /\ blobs[b].ReadSize = blobs[b].BlobSize
DataReachable(b) ==
    /\ blobs[b].Bid \notin lost
    /\ \A i \in DataUnits :
          \E p \in 1 .. Len(sortedVuids[b]) :
              sortedVuids[b][p].index = i /\ answer[sortedVuids[b][p].diskID] = "ok"
DataFirst(b) ==
    /\ Len(sortedVuids[b]) >= TacticN
    /\ \A p \in 1 .. TacticN : sortedVuids[b][p].index \in DataUnits
NoReconstructOf(b) == \A k \in DOMAIN reconstructs : reconstructs[k].blob # b

\* Every data unit of blob b is in the caller's IDC on a non-punished disk.
DataLocalUnpunished(b) ==
    \A p \in 1 .. Len(sortedVuids[b]) :
        sortedVuids[b][p].index \in DataUnits
        => /\ diskInfo[sortedVuids[b][p].diskID].idc = "local"
           /\ ~IsPunished(sortedVuids[b][p].diskID)

\* C9 as stated: with every data unit reachable, unpunished and in the local
\* IDC, a whole-blob read fetches exactly the N data shards, no parity shard,
\* and the encoder is not called.
C9_Original ==
    \A b \in 1 .. Len(blobs) :
        (mainLoop[b] # "off" /\ WholeBlob(b) /\ DataReachable(b) /\ DataLocalUnpunished(b))
        => /\ \A i \in ParityUnits : gets[b][i] = 0
           /\ NoReconstructOf(b)
           /\ mainLoop[b] = "ok" => \A i \in DataUnits : gets[b][i] = 1

\* C9: with MinReadShardsX = 0, every data unit reachable and first in the read
\* order, a whole-blob read requests each data shard that is not an empty
\* index exactly once, requests no empty index and no parity shard, and does
\* not call the encoder.
C9_DataShardsOnly ==
    \A b \in 1 .. Len(blobs) :
        (mainLoop[b] # "off" /\ WholeBlob(b) /\ DataReachable(b) /\ DataFirst(b)
           /\ minReadShardsX = 0)
        => /\ \A i \in ParityUnits : gets[b][i] = 0 /\ task[b][i].st = "idle"
           /\ NoReconstructOf(b)
           /\ \A i \in ClaimEmpty(b) : gets[b][i] = 0
           /\ \A i \in DataUnits \ ClaimEmpty(b) : gets[b][i] <= 1
           /\ mainLoop[b] = "ok" => \A i \in DataUnits \ ClaimEmpty(b) : gets[b][i] = 1

\* A whole-blob read of N non-empty data shards that succeeded under C9's
\* conditions, with a parity unit in the read order.
C9_Witness ==
    /\ Len(blobs) = 1 /\ mainLoop[1] = "ok" /\ WholeBlob(1)
    /\ DataReachable(1) /\ DataFirst(1)
    /\ minReadShardsX = 0 /\ ClaimEmpty(1) = {}
    /\ Len(sortedVuids[1]) = TacticN + TacticM
    /\ \A i \in DataUnits : gets[1][i] = 1
    /\ getPC = "done" /\ result.kind = "ok"

\* ---- the bytes of a Get
\* The source byte at location position p: byte p % BlobSize of the blob number
\* p \div BlobSize of the location.
SourceByte(p) ==
    LET fb == FlatBlobs(location.Blobs)[(p \div location.BlobSize) + 1]
    IN  <<fb.Vid, fb.Bid, p % location.BlobSize>>

ExpectedBytes == [q \in 1 .. readSize |-> SourceByte(offset + q - 1)]

\* C3: when Get succeeds, the bytes passed to the writer are the source bytes of
\* [offset, offset + readSize) in location order, none duplicated, skipped or
\* reordered.
C3_BytesInOrder == (getPC = "done" /\ result.kind = "ok") => written = ExpectedBytes

\* A successful Get of two blobs that starts inside the first blob and had to
\* reconstruct a data shard.
C3_Witness ==
    /\ getPC = "done" /\ result.kind = "ok"
    /\ Len(blobs) = 2 /\ offset > 0
    /\ Len(written) = readSize
    /\ reconstructs # <<>>

\* Every goroutine of the Get has finished or can take no further step.
Quiescent ==
    /\ getPC = "done"
    /\ pipe.pc \in {"off", "end"}
    /\ \A b \in BlobIdx : \A i \in Units : task[b][i].st \in {"idle", "done"}

\* C4 as stated: once the Get has returned and its shard and drain tasks have
\* finished, every buffer taken from the pool has been put back.
C4_BuffersReturned == Quiescent => \A id \in BufIds : buf[id] # "out"

\* C5 as stated: after the writer has failed on blob k, no range_get is issued
\* for a blob after k.
C5_NoGetAfterWriteError ==
    [][(closeCh /\ result.kind = "write")
         => \A b \in BlobIdx : b > result.blob => gets'[b] = gets[b]]_vars

\* ---- C6
RECURSIVE BytesBefore(_)
\* The requested bytes of the blobs before blob k.
BytesBefore(k) ==
    IF k <= 1 THEN <<>>
    ELSE BytesBefore(k - 1)
         \o [q \in 1 .. blobs[k - 1].ReadSize |->
                <<blobs[k - 1].Vid, blobs[k - 1].Bid, blobs[k - 1].Offset + q - 1>>]

\* Reading blob k has failed: its volume or read order could not be had, or
\* readOneBlob ended without a reconstructed blob.
ReadFailed(k) == mainLoop[k] = "broken" \/ (pipe.k = k /\ pipe.err # "none")

IsPrefix(s, t) == Len(s) <= Len(t) /\ \A q \in 1 .. Len(s) : s[q] = t[q]

NoWriteFailed == writeFailAt = 0 \/ writeCalls < writeFailAt

\* C6 as stated: if reading blob k fails, the Get returns an error and the bytes
\* written are exactly the requested bytes of the blobs before k.
C6_Original ==
    \A k \in 1 .. Len(blobs) :
        (getPC = "done" /\ ReadFailed(k))
        => result.kind # "ok" /\ written = BytesBefore(k)

\* C6: if reading blob k fails, the Get returns an error; nothing of blob k or a
\* later blob is written; unless a Write failed before, the bytes written are
\* exactly the requested bytes of the blobs before k and the error is that of
\* blob k; no Write call follows a failed Write.
C6_BlobFailure ==
    /\ writeFailAt > 0 => writeCalls <= writeFailAt
    /\ \A k \in 1 .. Len(blobs) :
          (getPC = "done" /\ ReadFailed(k))
          => /\ result.kind \notin {"ok", "none"}
             /\ IsPrefix(written, BytesBefore(k))
             /\ NoWriteFailed
                  => /\ written = BytesBefore(k)
                     /\ result.blob = k /\ result.kind \in {"broken", "volume"}

\* A Get whose second blob is broken, after the bytes of the first were written.
C6_Witness ==
    /\ getPC = "done" /\ ReadFailed(2) /\ mainLoop[2] = "broken"
    /\ result = Res("broken", 2)
    /\ written = BytesBefore(2) /\ written # <<>>


\* ---------------------------------------------------------------------- C11
\* Position of the entry of disk d in a read order (0: none).
PosOf(order, d) ==
    IF \E p \in 1 .. Len(order) : order[p].diskID = d
    THEN CHOOSE p \in 1 .. Len(order) : order[p].diskID = d
    ELSE 0

\* Disk d answered DiskBroken less than PunishInterval ago.
BrokenLately(d) == brokenAt[d] >= 0 /\ now < brokenAt[d] + PunishInterval

\* C11: a disk that answered DiskBroken during a Get is punished for
\* PunishInterval from that answer and not punished once the interval has
\* elapsed, and a read order computed within the interval has the unit of that
\* disk after every unit whose disk is not punished.
C11_PunishedForInterval ==
    [][/\ \A d \in Disks : brokenAt'[d] >= 0 =>
              (IsPunished(d)' <=> now' < brokenAt'[d] + PunishInterval)
       /\ (sortOut = <<>> /\ sortOut' # <<>>) =>
              \A d \in Disks : BrokenLately(d) =>
                  \A p \in 1 .. Len(sortOut'[1]) :
                      ~IsPunished(sortOut'[1][p].diskID) =>
                          PosOf(sortOut'[1], d) = 0 \/ p < PosOf(sortOut'[1], d)]_vars

\* A read order computed after unit 0 answered DiskBroken has it last, and
\* the punishment of the disk has expired since.
C11_Witness ==
    /\ sortOut # <<>>
    /\ Len(sortOut[1]) = TacticN + TacticM
    /\ sortOut[1][TacticN + TacticM].diskID = 0
    /\ diskInfo[0].idc = diskInfo[1].idc
    /\ brokenAt[0] >= 0 /\ brokenAt[1] < 0
    /\ now >= brokenAt[0] + PunishInterval
    /\ ~IsPunished(0)
\* ---------------------------------------------------------------------- C12
\* Number of blobs that location.Blobs lists.
RECURSIVE TotalCount(_)
TotalCount(runs) == IF runs = <<>> THEN 0 ELSE Head(runs).Count + TotalCount(Tail(runs))

\* The arguments of the Get are illegal: the range ends after the object, the
\* blob size is 0, or the listed blobs do not cover the range.
IllegalArgs ==
    \/ offset + readSize > location.Size
    \/ location.BlobSize = 0
    \/ readSize > 0 /\ TotalCount(location.Blobs) * location.BlobSize < offset + readSize

NothingRead ==
    /\ written = <<>> /\ writeCalls = 0 /\ fastGets = <<>>
    /\ \A b \in BlobIdx, i \in Units : gets[b][i] = 0 /\ forcedLookups[b][i] = 0

\* C12: a Get whose offset + read_size exceeds the object size (with the sum
\* taken over the integers, so also when the uint64 sum wraps), whose blob size
\* is 0 or whose blob runs do not cover the range returns IllegalArgument
\* without any volume lookup or range_get and without writing.
C12_IllegalArgument ==
    (getPC # "call" /\ IllegalArgs) =>
        (getPC = "done" /\ result.kind = "illegal" /\ NothingRead)
\* ---------------------------------------------------------------------- C13
\* The blob at position idx (from 0) of the runs: its volume and its bid.
RECURSIVE BlobAt(_, _)
BlobAt(runs, idx) ==
    IF idx < Head(runs).Count
    THEN [Vid |-> Head(runs).Vid, Bid |-> Head(runs).MinBid + idx]
    ELSE BlobAt(Tail(runs), idx - Head(runs).Count)

RECURSIVE SumReadSize(_)
SumReadSize(bs) == IF bs = <<>> THEN 0 ELSE Head(bs).ReadSize + SumReadSize(Tail(bs))

\* C13: for legal arguments genLocationBlobs returns no error and BlobRefs that
\* tile the range exactly: the j-th BlobRef is the blob at position
\* offset / blob_size + j - 1 of the location (bids consecutive within a run),
\* only the first has a non-zero offset and it is offset mod blob_size, each
\* blob_size is min(location.blob_size, total_size - idx * blob_size), each
\* offset + read_size is within its blob_size, every read_size is positive and
\* the read sizes sum to read_size; for read_size = 0 the list is empty and
\* Get returns success having written nothing.
C13_ExactTiling ==
    (getPC # "call" /\ ~IllegalArgs) =>
        LET first == offset \div location.BlobSize IN
        /\ result.kind # "illegal"
        /\ \A j \in 1 .. Len(blobs) :
              /\ blobs[j].Vid = BlobAt(location.Blobs, first + j - 1).Vid
              /\ blobs[j].Bid = BlobAt(location.Blobs, first + j - 1).Bid
              /\ blobs[j].Offset = IF j = 1 THEN offset % location.BlobSize ELSE 0
              /\ blobs[j].BlobSize = Min(location.BlobSize,
                                         location.Size - (first + j - 1) * location.BlobSize)
              /\ blobs[j].Offset + blobs[j].ReadSize <= blobs[j].BlobSize
              /\ blobs[j].ReadSize > 0
        /\ SumReadSize(blobs) = readSize
        /\ readSize = 0 => (blobs = <<>> /\ getPC = "done" /\ result.kind = "ok"
                              /\ NothingRead)

\* A range over three blobs of two runs that starts inside a blob and ends in
\* the shorter last blob of the object.
C13_Witness ==
    /\ getPC = "entry"
    /\ Len(blobs) = 3
    /\ blobs[1].Offset > 0
    /\ blobs[1].Vid # blobs[3].Vid
    /\ blobs[2].Bid = blobs[1].Bid + 1
    /\ blobs[3].BlobSize < location.BlobSize
    /\ SumReadSize(blobs) = readSize
\* ---------------------------------------------------------------------- C14
\* The data shards that the range of BlobRef b overlaps, in ascending order,
\* each with the sub-range of it that the range covers.
OverlappedShards(b) ==
    LET ss == ShardSizeOf(b.BlobSize)
        lo == b.Offset \div ss
        hi == (b.Offset + b.ReadSize - 1) \div ss
    IN  [j \in 1 .. (hi - lo + 1) |->
            LET i == lo + j - 1
                from == Max(b.Offset, i * ss)
                to == Min(b.Offset + b.ReadSize, (i + 1) * ss)
            IN  [index |-> i, Offset |-> from - i * ss, Size |-> to - from]]

\* The Get has taken the fast path and has not left it.
OnFastPath == getPC \in {"fast", "done"} /\ pipe.pc = "off" /\ fastGets # <<>>

DataUnitsAnswerOk == \A i \in DataUnits : answer[i] = "ok" /\ blobs[1].Bid \notin lost

\* C14: on the fast path with every data unit reachable the range_get calls
\* are, in order, one call for each data shard that the range
\* [blob.offset, blob.offset + read_size) overlaps, asking exactly the
\* overlapped sub-range of that shard; they are at most N, none goes to a
\* parity unit and no shard buffer of the general path is allocated.
C14_FastPathCalls ==
    (OnFastPath /\ DataUnitsAnswerOk) =>
        LET want == OverlappedShards(blobs[1]) IN
        /\ Len(fastGets) <= Len(want) /\ Len(want) <= TacticN
        /\ getPC = "done" => (Len(fastGets) = Len(want) /\ result.kind = "ok")
        /\ \A j \in 1 .. Len(fastGets) :
              /\ fastGets[j].index = want[j].index
              /\ fastGets[j].index \in DataUnits
              /\ fastGets[j].Offset = want[j].Offset
              /\ fastGets[j].Size = want[j].Size
        /\ \A b \in BlobIdx, i \in Units :
              gets[b][i] = 0 /\ buf[PreBuf(b, i)] = "pool" /\ buf[ReadBuf(b, i)] = "pool"

\* A fast-path Get whose range straddles a shard boundary has ended.
C14_Witness ==
    /\ OnFastPath /\ DataUnitsAnswerOk
    /\ getPC = "done" /\ result.kind = "ok"
    /\ Len(fastGets) = 2
    /\ fastGets[1].Offset > 0
    /\ Len(written) = readSize
\* ---------------------------------------------------------------------- C15
\* The answer that call g of the fast path got.
AnswerTo(g) == IF blobs[1].Bid \in lost THEN "other" ELSE answer[g.disk]

\* C15: on the fast path a range_get that fails in any class (a short body
\* included) is followed by nothing but a retry of the same shard, and only
\* for the classes that getOneShardFromHost retries; when the last call of
\* the fast path has failed the Get has gone on to the general path with no
\* error returned for it, and while the Get is on the fast path the encoder
\* has not been invoked and no error is returned.
C15_FastErrorFallsBack ==
    /\ \A j \in 1 .. Len(fastGets) - 1 :
          AnswerTo(fastGets[j]) # "ok" =>
              /\ fastGets[j + 1].index = fastGets[j].index
              /\ AnswerTo(fastGets[j]) \in {"other", "notfound"}
    /\ (fastGets # <<>> /\ AnswerTo(fastGets[Len(fastGets)]) # "ok") =>
          \/ /\ getPC = "fast" /\ fast.attempts < RetryAttempts
             /\ AnswerTo(fastGets[Len(fastGets)]) \in {"other", "notfound"}
          \/ /\ pipe.pc # "off"
             /\ getPC = "done" => result.kind \in {"ok", "broken", "volume"}
    /\ getPC = "fast" => result = NoResult
    /\ pipe.pc = "off" => reconstructs = <<>>

\* The first data shard of a fast-path Get came short, and the Get has ended
\* with success on the general path after a reconstruction.
C15_Witness ==
    /\ getPC = "done" /\ result.kind = "ok"
    /\ Len(fastGets) = 1
    /\ AnswerTo(fastGets[1]) = "short"
    /\ pipe.pc # "off"
    /\ reconstructs # <<>>
    /\ Len(written) = readSize
\* ---------------------------------------------------------------------- C16
\* The closure of Get has called getDataShardOnly: it is in its loop, or it
\* has returned the error of its volume lookup or of its buffer allocation.
FastPathTried == pipe.pc = "off" /\ (getPC = "fast" \/ result.kind \in {"volume", "alloc"})

\* C16: the closure of Get tries the data-shard-only fast path if and only if
\* the decomposition has exactly one BlobRef and blob_size <= shard_size or
\* read_size < blob_size / 4 (the quotient of the integer division); otherwise
\* its first step starts the general path.
C16_FastPathCondition ==
    [][getPC = "entry" =>
          LET one == Len(blobs) = 1
              small == blobs[1].BlobSize <= ShardSizeOf(blobs[1].BlobSize)
              short == blobs[1].ReadSize < blobs[1].BlobSize \div 4
          IN  /\ FastPathTried' <=> (one /\ (small \/ short))
              /\ ~FastPathTried' <=> (pipe'.pc = "next" /\ getPC' = "recv"
                                        /\ fastGets' = <<>>)]_vars

\* A read of few bytes of one large blob is on the fast path.
C16_Witness ==
    /\ getPC = "fast"
    /\ Len(blobs) = 1
    /\ blobs[1].BlobSize > ShardSizeOf(blobs[1].BlobSize)
    /\ blobs[1].ReadSize < blobs[1].BlobSize \div 4
    /\ blobs[1].ReadSize > 1
\* ---------------------------------------------------------------------- C17
\* C17: a Get during which the buffer pool failed an allocation (of one of
\* the N+M shard buffers of a blob, of a shard read buffer or of the range
\* buffer) ends with an error.
C17_AllocFailureFails ==
    (getPC = "done" /\ allocErrs > 0) => result.kind \notin {"ok", "none"}
\* ---------------------------------------------------------------------- C18
FinalCalls == {"CompleteTask", "CancelTask", "ReclaimTask"}

\* C18: Run reports to the scheduler at most once before it ends and exactly
\* once when it has ended, one of CompleteTask, CancelTask and ReclaimTask;
\* CompleteTask is reported only if GenTasklets succeeded, ExecTasklet was
\* called for every tasklet and returned no error, no stop reason was recorded
\* when the tasklets had finished, and Check passed; and no tasklet is
\* executed if GenTasklets fails.
C18_OneFinalReport ==
    /\ Len(reports) = (IF runPC = "done" THEN 1 ELSE 0)
    /\ \A k \in 1 .. Len(reports) : reports[k].call \in FinalCalls
    /\ (reports # <<>> /\ reports[1].call = "CompleteTask") =>
          /\ genErr = "none"
          /\ executed = Tasklets
          /\ \A i \in Tasklets : tasklet[i] = "ok" /\ execErr[i] = "none"
          /\ ~reasonAtWait
          /\ checkErr = "none"
    /\ genErr # "none" => executed = {}
\* ---------------------------------------------------------------------- C19
\* The stopWithFail of Stop or of a failed tasklet has cancelled the context.
StopHappened ==
    ctxDone /\ (stopPC = "done" \/ \E j \in Tasklets : tasklet[j] = "failed")

\* C19: a wrapper that starts after the stopWithFail of Stop or of a failed
\* tasklet has cancelled the context skips its tasklet; and a Run of a task
\* with tasklets whose stop reason was recorded before its tasklets had
\* finished ends with CancelTask or ReclaimTask, never CompleteTask, reporting
\* the first stop reason recorded.
C19_StopSkipsPending ==
    [][/\ \A i \in Tasklets :
              (StopHappened /\ tasklet[i] = "queued" /\ tasklet'[i] # "queued") =>
                  tasklet'[i] = "skipped"
       /\ (runPC' = "done" /\ reasonAtWait' /\ tasklets > 0) =>
              /\ reports'[1].call \in {"CancelTask", "ReclaimTask"}
              /\ reports'[1].reason = stopCalls'[1]]_vars
\* ---------------------------------------------------------------------- C20
\* C20: a setStatus(TaskRunning) on a TaskState whose state is TaskSuccess or
\* TaskStopped leaves the state unchanged; and after any sequence of setStatus
\* calls alive() holds exactly when the state is TaskInit or TaskRunning,
\* stopped() exactly when it is TaskSuccess or TaskStopped, and never both.
C20_StoppedStaysStopped ==
    /\ [](/\ alive(state) <=> state \in {TaskInit, TaskRunning}
          /\ stopped(state) <=> state \in {TaskSuccess, TaskStopped}
          /\ ~(alive(state) /\ stopped(state)))
    /\ [][(/\ state \in {TaskSuccess, TaskStopped}
           /\ Len(statusCalls') > Len(statusCalls)
           /\ statusCalls'[Len(statusCalls')] = TaskRunning) =>
              state' = state]_vars

\* setStatus(TaskRunning) was called on a stopped TaskState.
C20_Witness ==
    /\ Len(statusCalls) >= 2
    /\ statusCalls[Len(statusCalls)] = TaskRunning
    /\ statusCalls[Len(statusCalls) - 1] \in {TaskSuccess, TaskStopped}
    /\ stopped(state) /\ ~alive(state)
\* ---------------------------------------------------------------------- C21
\* The ReconstructData call c is made when the claim says, with the bad
\* indices it says.
ReconstructWhenDue(c) ==
    /\ \E i \in DataUnits : c.recv[i] # "ok"
    /\ Cardinality({j \in Units : c.recv[j] = "bad"}) <= TacticM
    /\ Cardinality({j \in Units : c.recv[j] = "ok"}) >= TacticN
    /\ c.badIdx = {j \in Units : c.recv[j] # "ok"}

\* What holds of the calls even when an Alloc of the pool fails.
ReconstructCallsDue == \A k \in DOMAIN reconstructs : ReconstructWhenDue(reconstructs[k])

\* C21: at every ReconstructData call some data index is not received with
\* success, at most M outcomes have failed, at least N indices are received
\* with success (the empty indices among them), the bad indices passed are
\* exactly the indices of [0, N+M) not received with success, and every other
\* index of the shard matrix holds a buffer that was received in full or
\* zero-filled.
C21_ReconstructCall ==
    \A k \in DOMAIN reconstructs :
        /\ ReconstructWhenDue(reconstructs[k])
        /\ \A j \in Units \ reconstructs[k].badIdx :
              j \in reconstructs[k].okData /\ j \notin reconstructs[k].nilBufs
\* ---------------------------------------------------------------------- C22
BadCount(rcv) == Cardinality({j \in Units : rcv[j] = "bad"})
OkCount(rcv) == Cardinality({j \in Units : rcv[j] = "ok"})
RecordedCount(rcv) == Cardinality({j \in Units : rcv[j] # "none"})

\* The main loop of blob b records an outcome in this step.
Records(b) == mainLoop[b] = "loop" /\ received'[b] # received[b]

\* C22: the step of the main loop that records an outcome after which more
\* than M outcomes have failed, with at least N entries recorded, closes the
\* stop signal and fails the blob, whatever shard reads are still in flight,
\* and calls no ReconstructData; and ReconstructData is not called for a blob
\* of which fewer than N shards are received with success.
C22_TooManyBadFails ==
    /\ [](\A b \in BlobIdx : OkCount(received[b]) < TacticN => NoReconstructOf(b))
    /\ [][\A b \in BlobIdx :
            (/\ Records(b)
             /\ BadCount(received'[b]) > TacticM
             /\ RecordedCount(received'[b]) >= TacticN)
            => /\ stopChan'[b]
               /\ mainLoop'[b] = "broken"
               /\ pipe'.pc = "senderr" /\ pipe'.err = "broken"
               /\ reconstructs' = reconstructs]_vars

\* A blob failed on its (M+1)th failed outcome while a shard read was still in
\* flight, and no ReconstructData call was made for it.
C22_Witness ==
    \E b \in BlobIdx :
        /\ mainLoop[b] = "broken" /\ stopChan[b]
        /\ BadCount(received[b]) = TacticM + 1
        /\ \E i \in Units : task[b][i].st = "run"
        /\ NoReconstructOf(b)
\* ---------------------------------------------------------------------- C23
\* The main loop of blob b calls ReconstructData in this step, and the call
\* reports an error.
ReconstructErrorAt(b) ==
    /\ Records(b)
    /\ Len(reconstructs') = Len(reconstructs) + 1
    /\ reconstructs'[Len(reconstructs')].blob = b
    /\ ReconstructFails(reconstructs'[Len(reconstructs')].badIdx)

\* The ReconstructData calls for blob b that reported an error.
FailedCalls(b) ==
    {k \in DOMAIN reconstructs :
        reconstructs[k].blob = b /\ ReconstructFails(reconstructs[k].badIdx)}

Launched(b) == {i \in Units : task[b][i].st # "idle"}
Processed(b) == {i \in Units : task[b][i].st = "done"}

\* The non-empty indices among the first min(N + read_shards_x, len(order))
\* entries of the read order of blob b.
InitialBatch(b) ==
    {sortedVuids[b][p].index :
        p \in {q \in 1 .. Min(TacticN + minReadShardsX, Len(sortedVuids[b])) :
                  sortedVuids[b][q].index \notin ClaimEmpty(b)}}

\* C24 as stated: when the first outcome of a blob is processed, the shard
\* reads of the initial batch have all been launched, and no other.
C24_Original ==
    \A b \in BlobIdx :
        /\ Processed(b) # {} => InitialBatch(b) \subseteq Launched(b)
        /\ Processed(b) = {} => Launched(b) \subseteq InitialBatch(b)

\* C24: the launcher starts the shard reads of the initial batch one after
\* another, without a token and whatever the stop signal: once its first loop
\* has ended they are all launched; until an outcome has been processed no
\* other unit is launched; an empty index is never launched.
C24_InitialBatch ==
    \A b \in BlobIdx :
        /\ launcher[b].pc \in {"wait", "done"} => InitialBatch(b) \subseteq Launched(b)
        /\ launcher[b].pc = "first" => Launched(b) \subseteq InitialBatch(b)
        /\ Processed(b) = {} => Launched(b) \subseteq InitialBatch(b)
        /\ mainLoop[b] # "off" => Launched(b) \cap ClaimEmpty(b) = {}

\* The first outcome of a blob was processed, and ended the blob read, before
\* the launcher had launched the last read of the initial batch.
C24_Witness ==
    \E b \in BlobIdx :
        /\ launcher[b].pc = "first"
        /\ Processed(b) # {} /\ stopChan[b]
        /\ InitialBatch(b) \ Launched(b) # {}
        /\ Cardinality(InitialBatch(b)) < Min(TacticN + minReadShardsX, Len(sortedVuids[b]))
\* ---------------------------------------------------------------------- C25
\* The positions of the read order of blob b that hold a non-empty index, and
\* those of them whose shard read is launched.
NonEmptyPos(b) ==
    {p \in 1 .. Len(sortedVuids[b]) : sortedVuids[b][p].index \notin ClaimEmpty(b)}
LaunchedPos(b) == {p \in NonEmptyPos(b) : sortedVuids[b][p].index \in Launched(b)}

\* The launcher of blob b launches a shard read in this step, past its first
\* loop.
LaunchesMore(b) ==
    /\ launcher[b].pc = "wait"
    /\ \E i \in Units : task[b][i].st = "idle" /\ task'[b][i].st # "idle"

\* C25: a token is sent to the launcher only by an iteration of the main loop
\* that records an outcome with at least N entries recorded and leaves the blob
\* undecided, one token per such outcome; past the initial batch each launch
\* takes one token and starts one shard read, that of the first non-empty unit
\* of the read order not launched yet; so the units launched are always an
\* initial part of the non-empty units of the read order.
C25_OneMorePerOutcome ==
    /\ [](\A b \in BlobIdx : \A p, q \in NonEmptyPos(b) :
             (p < q /\ q \in LaunchedPos(b)) => p \in LaunchedPos(b))
    /\ [][\A b \in BlobIdx :
            /\ nextChan'[b] > nextChan[b] =>
                  /\ Records(b)
                  /\ nextChan'[b] = nextChan[b] + 1
                  /\ mainLoop'[b] = "loop" /\ ~stopChan'[b]
                  /\ RecordedCount(received'[b]) >= TacticN
            /\ LaunchesMore(b) =>
                  /\ nextChan[b] > 0 /\ nextChan'[b] = nextChan[b] - 1
                  /\ \E p \in NonEmptyPos(b) \ LaunchedPos(b) :
                        /\ \A q \in NonEmptyPos(b) \ LaunchedPos(b) : p <= q
                        /\ Launched(b)' = Launched(b) \cup {sortedVuids[b][p].index}]_vars

\* A shard read past the initial batch was launched, after an outcome that left
\* the blob undecided, and answered.
C25_Witness ==
    \E b \in BlobIdx :
        /\ Launched(b) \ InitialBatch(b) # {}
        /\ \E i \in Launched(b) \ InitialBatch(b) : gets[b][i] > 0
        /\ \E i \in InitialBatch(b) : received[b][i] = "bad"
\* ---------------------------------------------------------------------- C26
\* C26: once the stop signal of a blob is closed no RangeGetShard call is made
\* for the blob by an attempt that starts with its cancel check: a unit
\* launched afterwards makes none, and the next step of a shard read that is
\* launched or waits to retry ends it as failed, with no call, no buffer taken
\* and no disk punished.
C26_NoGetAfterStop ==
    [][\A b \in BlobIdx :
          stopChan[b] =>
              /\ gets'[b] = gets[b]
              /\ \A i \in Units :
                    (task[b][i].st = "run" /\ task'[b][i] # task[b][i]) =>
                        /\ task'[b][i].st = "ready" /\ ~task'[b][i].status
                        /\ buf' = buf /\ punished' = punished]_vars

\* After the stop signal was closed, a shard read that was to retry ended
\* without a further call.
C26_Witness ==
    \E b \in BlobIdx :
        /\ stopChan[b]
        /\ \E i \in Units :
              /\ task[b][i].st \in {"ready", "done"} /\ ~task[b][i].status
              /\ task[b][i].attempts \in 1 .. (RetryAttempts - 1)
              /\ gets[b][i] = task[b][i].attempts
\* ---------------------------------------------------------------------- C27
\* The units of blob b of which the main loop recorded no outcome.
Late(b) == {i \in Units : received[b][i] = "none"}

\* Every launched shard task of blob b has delivered its outcome, the outcome
\* channel is closed, and the buffer of no late outcome is out of the pool.
Drained(b) ==
    /\ shardPipeClosed[b]
    /\ \A i \in Units : task[b][i].st \in {"idle", "done"}
    /\ \A i \in Late(b) : buf[ReadBuf(b, i)] \in {"pool", "back"}

\* C27: once the main loop of a blob has ended, with success or failure, every
\* launched shard task delivers its outcome (to the drain, if the main loop did
\* not take it), the outcome channel is closed, and the buffer of every
\* outcome that arrived late with success is back in the pool.
C27_DrainCompletes ==
    \A b \in BlobIdx : (mainLoop[b] \in {"ok", "broken"}) ~> Drained(b)

\* The blob was read with success, and the drain has put back the buffer of a
\* shard that arrived with success after the main loop had ended.
C27_Witness ==
    \E b \in BlobIdx :
        /\ mainLoop[b] = "ok" /\ Drained(b)
        /\ \E i \in Late(b) :
              /\ task[b][i].st = "done" /\ task[b][i].status
              /\ buf[ReadBuf(b, i)] = "back"
\* ---------------------------------------------------------------------- C28
\* The shard matrix of blob b is in use: by the main loop of readOneBlob, or by
\* the write loop of Get.
MatrixInUse(b) == mainLoop[b] = "loop" \/ (getPC = "write" /\ wr.k = b)

\* The places that hold buffer id while it is out of the pool: the positions of
\* the shard matrices that were handed out and not given back, and the shard
\* tasks that have read a shard into it and not yet delivered it.
MatrixHolders(id) ==
    {<<b, i>> \in BlobIdx \X Units : mainLoop[b] # "off" /\ shards[b][i].buf = id}
TaskHolders(id) ==
    {<<b, i>> \in BlobIdx \X Units :
        task[b][i].st = "ready" /\ task[b][i].status /\ ReadBuf(b, i) = id}

\* C28: no buffer is put back twice; a buffer out of the pool is held by one
\* position of one shard matrix or by one shard task, never both; a shard
\* matrix in use by the main loop or the write loop holds no buffer that was
\* put back; and the iteration of the main loop that swaps a received shard
\* into shards[i] puts the buffer it replaces back, once.
C28_OneHolder ==
    /\ [](/\ \A id \in BufIds : buf[id] # "twice"
          /\ \A id \in BufIds \ {RangeBuf} :
                buf[id] = "out" =>
                    Cardinality(MatrixHolders(id)) + Cardinality(TaskHolders(id)) = 1
          /\ \A id \in BufIds : buf[id] = "pool" => TaskHolders(id) = {}
          /\ \A b \in BlobIdx : MatrixInUse(b) =>
                \A i \in Units : shards[b][i].buf # NilBuf => buf[shards[b][i].buf] = "out")
    /\ [][\A b \in BlobIdx : \A i \in Units :
            (Records(b) /\ received'[b][i] = "ok" /\ received[b][i] # "ok") =>
                /\ shards'[b][i].buf = ReadBuf(b, i)
                /\ shards[b][i].buf # NilBuf =>
                      /\ buf[shards[b][i].buf] = "out"
                      /\ buf'[shards[b][i].buf] = "back"]_vars

\* A Get has ended after the main loop swapped in a received shard, the
\* drain put back a late one and the write loop put back the matrix.
C28_Witness ==
    /\ getPC = "done" /\ result.kind = "ok"
    /\ \E b \in BlobIdx :
          /\ \E i \in Units : shards[b][i].buf = ReadBuf(b, i) /\ buf[PreBuf(b, i)] = "back"
          /\ \E i \in Late(b) : task[b][i].st = "done" /\ buf[ReadBuf(b, i)] = "back"
          /\ \A i \in Units : buf[shards[b][i].buf] = "back"
\* ---------------------------------------------------------------------- C29
\* The answer class that RangeGetShard gives the shard task of unit i of blob b.
ShardAnswer(b, i) == IF blobs[b].Bid \in lost THEN "other" ELSE answer[task[b][i].disk]

\* The shard task of unit i of blob b makes a RangeGetShard call in this step.
Calls(b, i) == gets'[b][i] = gets[b][i] + 1

\* C29: one shard fetch makes at most 3 RangeGetShard calls; a call answered
\* with Overload, DiskBroken, VuidReadonly or a timeout ends the fetch with a
\* failed outcome and no further call; a call is followed by another one only
\* after an error that is none of these; and a fetch that has ended makes no call.
C29_RetryPolicy ==
    /\ [](\A b \in BlobIdx : \A i \in Units : gets[b][i] <= RetryAttempts)
    /\ [][\A b \in BlobIdx : \A i \in Units :
            /\ (Calls(b, i) /\ ShardAnswer(b, i) \in {"overload", "broken", "timeout"}) =>
                  (task'[b][i].st = "ready" /\ ~task'[b][i].status)
            /\ (Calls(b, i) /\ task'[b][i].st = "run") =>
                  (ShardAnswer(b, i) \in {"other", "notfound"} /\ gets'[b][i] < RetryAttempts)
            /\ Calls(b, i) => task[b][i].st = "run"
            /\ gets'[b][i] # gets[b][i] => Calls(b, i)]_vars

\* A fetch gave up after three calls that all met an error that is retried.
C29_Witness ==
    \E b \in BlobIdx : \E i \in Units :
        /\ task[b][i].st = "done" /\ ~task[b][i].status
        /\ gets[b][i] = RetryAttempts
        /\ ShardAnswer(b, i) \in {"other", "notfound"}
\* ---------------------------------------------------------------------- C30
\* The shard task of unit i of blob b makes a call that is answered
\* DiskNotFound or VuidNotFound, and the forced volume lookup succeeds.
NotFoundCall(b, i) ==
    Calls(b, i) /\ ShardAnswer(b, i) = "notfound" /\ ~getVolumeFails(FALSE)

\* The refreshed volume names another disk for unit i, whose host is known and
\* which is not punished.
SwitchDue(b, i) ==
    /\ upstreamUnits[i] # task[b][i].disk
    /\ diskInfo[upstreamUnits[i]].resolvable
    /\ ~IsPunished(upstreamUnits[i])

\* The fetch switches to the disk of the refreshed volume: nothing is
\* punished, and while attempts are left the task goes on with the new disk.
SwitchesDisk(b, i) ==
    /\ punished' = punished
    /\ gets'[b][i] < RetryAttempts =>
          (task'[b][i].st = "run" /\ task'[b][i].disk = upstreamUnits[i])

ThresholdPunished(d) ==
    punished'[d].kind # "none" /\ punished'[d].until = now + PunishInterval

\* What the code does after a not-found answer: it switches when a switch is
\* due; else it threshold-punishes the disk and, while attempts are left, goes
\* on with the same disk.
NotFoundRetries ==
    [][\A b \in BlobIdx : \A i \in Units :
         NotFoundCall(b, i) =>
            IF SwitchDue(b, i) THEN SwitchesDisk(b, i)
            ELSE /\ ThresholdPunished(task[b][i].disk)
                 /\ gets'[b][i] < RetryAttempts =>
                       (task'[b][i].st = "run" /\ task'[b][i].disk = task[b][i].disk)]_vars

\* C30: after a DiskNotFound/VuidNotFound answer, if the refreshed volume
\* names a different, not punished disk for the unit index, the fetch goes on
\* with that disk and the old disk is not punished; otherwise the old disk is
\* threshold-punished and the fetch ends with a failed outcome without another
\* call.
C30_NotFoundHandling ==
    [][\A b \in BlobIdx : \A i \in Units :
         NotFoundCall(b, i) =>
            IF SwitchDue(b, i) THEN SwitchesDisk(b, i)
            ELSE /\ ThresholdPunished(task[b][i].disk)
                 /\ task'[b][i].st = "ready" /\ ~task'[b][i].status]_vars
\* ---------------------------------------------------------------------- C31
\* What a call to disk d that is answered a does to the punished disks.
PunishFollows(d, a) ==
    /\ \A e \in Disks \ {d} : punished'[e] = punished[e]
    /\ a \in {"ok", "short", "overload", "other"} => punished'[d] = punished[d]
    /\ a = "broken" => punished'[d] = [kind |-> "full", until |-> now + PunishInterval]
    /\ a = "timeout" =>
          punished'[d] = [kind |-> IF punished[d].kind = "full" /\ now < punished[d].until
                                   THEN "full" ELSE "threshold",
                          until |-> now + PunishInterval]

\* The fast path makes a RangeGetShard call in this step.
FastCalls == Len(fastGets') = Len(fastGets) + 1

\* C31: a call answered Overload or with another error punishes no disk, one
\* answered DiskBroken or VuidReadonly full-punishes the disk that answered and
\* no other, one answered with a timeout threshold-punishes that disk and no
\* other, a successful call punishes none, and a step without a call (a
\* cancelled attempt included) punishes none.
C31_PunishByClass ==
    [][/\ \A b \in BlobIdx : \A i \in Units :
             Calls(b, i) => PunishFollows(task[b][i].disk, ShardAnswer(b, i))
       /\ FastCalls =>
             PunishFollows(fast.disk, IF blobs[1].Bid \in lost THEN "other"
                                      ELSE answer[fast.disk])
       /\ (~FastCalls /\ \A b \in BlobIdx : \A i \in Units : ~Calls(b, i)) =>
             punished' = punished]_vars

\* A read has ended in which one disk answered with a timeout and is
\* threshold-punished, and no other disk is punished.
C31_Witness ==
    /\ getPC = "done"
    /\ \E d \in Disks :
          /\ answer[d] = "timeout" /\ punished[d].kind = "threshold"
          /\ \A e \in Disks \ {d} : punished[e].kind = "none"
    /\ \E b \in BlobIdx : \E i \in Units : gets[b][i] = 1 /\ answer[task[b][i].disk] = "timeout"
\* ---------------------------------------------------------------------- C32
\* The pipeline invokes readOneBlob for blob k in this step.
StartsBlob(k) == k <= Len(blobs) /\ mainLoop[k] = "off" /\ mainLoop'[k] = "loop"

\* C32 as stated: every blob of the general path is read in an order that is
\* computed, from the punish state of that moment, when the blob starts.
C32_Original ==
    [][\A k \in BlobIdx :
         StartsBlob(k) => sortedVuids'[k] \in pipelineOrders(blobs[k].Vid)]_vars

\* C32: the blobs are started in order, each after the read of the one before
\* has succeeded; the first blob, and a blob of another volume than the blob
\* before it, is read in an order computed from the punish state of the moment
\* it starts; a blob of the same volume as the blob before it is read in the
\* order of that blob.
C32_OrderPerVolumeRun ==
    [][\A k \in BlobIdx :
         StartsBlob(k) =>
            /\ \A j \in 1 .. (k - 1) : mainLoop[j] = "ok"
            /\ IF k = 1 \/ blobs[k - 1].Vid # blobs[k].Vid
               THEN sortedVuids'[k] \in pipelineOrders(blobs[k].Vid)
               ELSE sortedVuids'[k] = sortedVuids[k - 1]]_vars

\* The second blob of a volume is being read in the order of the first, which
\* is no order that the punish state of the moment it started would give:
\* a disk punished during the first blob is still ahead of a disk that is not.
C32_Witness ==
    /\ Len(blobs) >= 2 /\ blobs[1].Vid = blobs[2].Vid
    /\ mainLoop[2] = "loop" /\ launcher[2] = [pc |-> "first", pos |-> 1]
    /\ sortedVuids[2] = sortedVuids[1]
    /\ sortedVuids[2] \notin pipelineOrders(blobs[2].Vid)
\* ---------------------------------------------------------------------- C33
\* The units of blob k whose disk has a host, as the volume cache has them.
ResolvableUnits(k) ==
    {i \in Units : diskInfo[UnitsOf(volumeCache[blobs[k].Vid])[i]].resolvable}

\* The pipeline takes blob k in this step.
PipelineTakes(k) == k <= Len(blobs) /\ pipe.pc = "next" /\ pipe.k = k /\ pipe' # pipe

\* Blob k was failed by the pipeline before readOneBlob was called for it.
FailedUnread(k) ==
    k <= Len(blobs) /\ pipe.k = k /\ pipe.err = "broken" /\ mainLoop[k] = "off"

\* Nothing was allocated and nothing was asked of a blobnode for blob k.
Untouched(k) ==
    \A i \in Units :
        gets[k][i] = 0 /\ buf[PreBuf(k, i)] = "pool" /\ buf[ReadBuf(k, i)] = "pool"

\* The pipeline fails a blob with fewer than N resolvable units when it takes
\* it, before anything is allocated or read for it.
FailsUnread ==
    [][\A k \in BlobIdx :
         (PipelineTakes(k) /\ ~getVolumeFails(TRUE)
             /\ Cardinality(ResolvableUnits(k)) < TacticN) =>
            (FailedUnread(k)' /\ buf' = buf /\ gets' = gets)]_vars

\* C33 as stated: a blob with fewer than N resolvable units is failed unread,
\* and the Get returns the broken-blob error after the bytes of the blobs
\* before it.
C33_Original ==
    \A k \in BlobIdx :
        (FailedUnread(k) /\ getPC = "done") =>
            (Untouched(k) /\ result = Res("broken", k) /\ written = BytesBefore(k))

\* C33: when the pipeline of the general path takes a blob of which fewer than
\* N units have a resolvable disk host, it fails the blob as broken at once:
\* no buffer is allocated and no RangeGetShard call is made for it; the Get
\* returns an error and writes nothing of that blob; and unless a Write
\* failed before, the error is the broken-blob error of that blob and the
\* bytes written are those of the blobs before it.
C33_UnresolvableFails ==
    /\ FailsUnread
    /\ [](\A k \in BlobIdx :
            FailedUnread(k) =>
               /\ Untouched(k)
               /\ getPC = "done" =>
                     /\ result.kind \notin {"ok", "none"}
                     /\ IsPrefix(written, BytesBefore(k))
                     /\ NoWriteFailed =>
                           (result = Res("broken", k) /\ written = BytesBefore(k)))

\* The second blob of a Get was failed unread for want of resolvable units,
\* after the bytes of the first blob were written.
C33_Witness ==
    /\ FailedUnread(2) /\ Cardinality(ResolvableUnits(2)) < TacticN
    /\ getPC = "done" /\ result = Res("broken", 2)
    /\ written = BytesBefore(2) /\ written # <<>>
\* ---------------------------------------------------------------------- C34
\* Something can still bring the main loop of blob b an outcome: a shard task
\* is in flight or has its outcome ready, or the launcher is about to launch one.
OutcomeComing(b) ==
    \/ \E i \in Units : task[b][i].st \in {"run", "ready"}
    \/ launcher[b].pc = "first"
    \/ launcher[b].pc = "wait" /\ nextChan[b] > 0

\* C34: while the main loop of readOneBlob waits for an outcome, a shard task is
\* in flight or the launcher is able to launch one (it is never left waiting
\* for a token that will not come); the next channel never holds more tokens
\* than its capacity len(sortedVuids), so the main loop never blocks sending
\* one; and readOneBlob ends, with success or with the broken-blob error.
C34_ReadOneBlobEnds ==
    /\ [](\A b \in BlobIdx :
            /\ mainLoop[b] = "loop" => OutcomeComing(b)
            /\ nextChan[b] <= Len(sortedVuids[b]))
    /\ \A b \in BlobIdx : (mainLoop[b] = "loop") ~> (mainLoop[b] \in {"ok", "broken"})

\* With MinReadShardsX = 0 and no empty index the main loop has ended after
\* the last unit of a full read order, launched on a token, was recorded.
C34_Witness ==
    \E b \in BlobIdx :
        /\ mainLoop[b] \in {"ok", "broken"}
        /\ minReadShardsX = 0 /\ EmptiesOf(b) = {}
        /\ Len(sortedVuids[b]) = TacticN + TacticM
        /\ \A i \in Units : received[b][i] # "none"
        /\ launcher[b].pc = "done"
\* ---------------------------------------------------------------------- C35
\* Every unit of the read order of blob b that is not an empty index has its
\* outcome recorded.
AllDelivered(b) ==
    \A p \in 1 .. Len(sortedVuids[b]) :
        \/ sortedVuids[b][p].index \in EmptiesOf(b)
        \/ received[b][sortedVuids[b][p].index] # "none"

\* C35: readOneBlob ends with the broken-blob error only when more than M
\* failed outcomes are recorded or every unit of the read order that is not an
\* empty index has its outcome recorded.
C35_BrokenOnlyWhenHopeless ==
    \A b \in BlobIdx :
        mainLoop[b] = "broken" => (BadCount(received[b]) > TacticM \/ AllDelivered(b))
\* ---------------------------------------------------------------------- C36
\* C36: while the fast path runs nothing has been passed to the writer; its one
\* Write comes after every shard it needs was read and ends the Get; so when it
\* ends with errNeedReconstructRead the general path starts with nothing
\* written, and a Get that succeeds after it has written exactly the requested
\* bytes.
C36_FastWritesLast ==
    /\ [](/\ getPC = "fast" => (written = <<>> /\ writeCalls = 0)
          /\ (getPC = "done" /\ result.kind = "ok" /\ fastGets # <<>>)
                => written = ExpectedBytes)
    /\ [][/\ (getPC = "fast" /\ getPC' = "recv") => (written' = <<>> /\ writeCalls' = 0)
          /\ (getPC = "fast" /\ written' # written) =>
                (fast.remain = 0 /\ written' = fast.data /\ getPC' = "done")]_vars

\* A Get whose fast path read its first shard, failed on the second and fell
\* back has succeeded in the general path.
C36_Witness ==
    /\ getPC = "done" /\ result.kind = "ok"
    /\ pipe # NoPipe
    /\ \E g \in 1 .. Len(fastGets) : g > 1 /\ fastGets[g].index # fastGets[1].index
    /\ written = ExpectedBytes
\* ---------------------------------------------------------------------- C37
\* Buffers of the shard matrix of blob k are out of the pool.
MatrixOut(k) ==
    /\ mainLoop[k] # "off"
    /\ \E i \in Units : shards[k][i].buf # NilBuf /\ buf[shards[k][i].buf] = "out"

\* Blob k has been written completely and its buffers are back in the pool.
WrittenAndBack(k) == IsPrefix(BytesBefore(k + 1), written) /\ ~MatrixOut(k)

\* C37: the read of blob k+3 starts only when blob k has been written
\* completely and its buffers have been returned, and at no time are the
\* matrix buffers of more than three blobs out of the pool.
C37_TwoAhead ==
    /\ [](Cardinality({k \in BlobIdx : MatrixOut(k)}) <= 3)
    /\ [][\A k \in BlobIdx : (k > 3 /\ StartsBlob(k)) => WrittenAndBack(k - 3)]_vars

\* The read of the fourth blob has started while the second blob is being
\* written and the third waits in the channel: three matrices are out.
C37_Witness ==
    /\ Len(blobs) = 4 /\ mainLoop[4] = "loop"
    /\ getPC = "write" /\ wr.k = 2 /\ Len(ch) = 1
    /\ WrittenAndBack(1)
    /\ Cardinality({k \in BlobIdx : MatrixOut(k)}) = 3

\* ------------------------------------------------------------------- C38
\* The goroutines whose Acquire of key has returned and that have not called
\* Release yet.
Holders(key) ==
    {g \in Callers : caller[g].pc = "holding"
                     /\ \E i \in 1 .. Len(caller[g].keys) : caller[g].keys[i] = key}

AtMostNHolders == \A key \in LimitKeys : Cardinality(Holders(key)) <= LimitN

InAcquire(g) == caller[g].pc \in {"single", "create", "acquire", "multi", "acquireAll"}

InRelease(g) == caller[g].pc \in {"release", "releaseAll"}

\* Every holder calls Release in the end, so an Acquire that waits for a key
\* with n holders sees a holder release it.
AcquireReturns == \A g \in Callers : InAcquire(g) ~> (caller[g].pc = "holding")

ReleaseReturns == \A g \in Callers : InRelease(g) ~> (caller[g].pc = "done")

\* C38: under any interleaving of Acquire and Release calls on the limiter of
\* NewBlockingKeyCountLimit(n), a key has at most n holders at any instant, an
\* Acquire that waits for a key returns once a holder has released the key,
\* and a Release call returns, for Acquire of one key and of several alike.
C38_BlockingLimit == []AtMostNHolders /\ AcquireReturns /\ ReleaseReturns

\* ------------------------------------------------------------------- C39
RECURSIVE RangesSize(_)
RangesSize(rs) ==
    IF rs = <<>> THEN 0 ELSE (Head(rs).EndBid - Head(rs).StartBid + 1) + RangesSize(Tail(rs))

RangesBids(rs) == UNION {rs[i].StartBid .. rs[i].EndBid : i \in 1 .. Len(rs)}

Succeeded(i) == allocs[i].err = "nil"

\* The ranges of a successful call are in order, hold count bids, all of them
\* from scopes the cluster manager gave to this bidMgr.
RangesGood(i) ==
    /\ \A j \in 1 .. Len(allocs[i].ranges) :
         allocs[i].ranges[j].StartBid <= allocs[i].ranges[j].EndBid
    /\ RangesSize(allocs[i].ranges) = allocs[i].count
    /\ RangesBids(allocs[i].ranges) \subseteq obtained

NoBidTwice ==
    \A i, j \in 1 .. Len(allocs) :
        i < j /\ Succeeded(i) /\ Succeeded(j)
        => RangesBids(allocs[i].ranges) \cap RangesBids(allocs[j].ranges) = {}

\* The bids the bidMgr can still hand out.
Allocable == ScopeBids(current) \cup ScopeBids(backup)

AllocFails == Len(allocs') = Len(allocs) + 1 /\ allocs'[Len(allocs')].err # "nil"

\* The one range of a successful Alloc of no bid: it starts at the next bid
\* and ends before it.
EmptyRange(i) ==
    /\ Len(allocs[i].ranges) = 1
    /\ allocs[i].ranges[1].StartBid = allocs[i].ranges[1].EndBid + 1

AllocOfNone == Len(allocs') = Len(allocs) + 1 /\ allocs'[Len(allocs')].count = 0

\* C39 as stated: under any interleaving of Alloc calls and refills by
\* allocBidLoop, every successful Alloc returns ranges with StartBid <= EndBid
\* whose sizes sum to count, taken from scopes obtained from the cluster
\* manager; no bid is returned by two successful calls; a failed Alloc
\* consumes no bid.
C39_Original ==
    /\ [](\A i \in 1 .. Len(allocs) : Succeeded(i) => RangesGood(i))
    /\ []NoBidTwice
    /\ [][AllocFails => UNCHANGED <<current, backup>>]_vars

\* C39: under any interleaving of Alloc calls and refills by allocBidLoop,
\* every successful Alloc of count >= 1 returns ranges with StartBid <= EndBid
\* whose sizes sum to count, taken from scopes obtained from the cluster
\* manager; a successful Alloc of count 0 returns one range with
\* StartBid = EndBid + 1; no bid is returned by two successful calls; an Alloc
\* that fails or has count 0 consumes no bid.
C39_AllocRanges ==
    /\ [](\A i \in 1 .. Len(allocs) :
            Succeeded(i) => IF allocs[i].count >= 1 THEN RangesGood(i) ELSE EmptyRange(i))
    /\ []NoBidTwice
    /\ [][AllocFails \/ AllocOfNone => UNCHANGED <<current, backup>>]_vars

\* Calls of every kind have happened: one was served from two scopes, the
\* second of them a refill by allocBidLoop, one failed, one took no bid.
C39_Witness ==
    /\ \E i \in 1 .. Len(allocs) : Succeeded(i) /\ Len(allocs[i].ranges) = 1 + 1
    /\ \E i \in 1 .. Len(allocs) : ~Succeeded(i)
    /\ \E i \in 1 .. Len(allocs) : Succeeded(i) /\ allocs[i].count = 0

====
